---- MODULE Spec2Model ----
(***************************************************************************)
(* PyRadio: one audio server (modules/socket/server.py, core/menu.py,      *)
(* core/threads.py) streaming to clients (modules/socket/client.py,        *)
(* core/options.py) over TCP.                                              *)
(*                                                                         *)
(* The server's main thread runs server_option(): bind, then the accept    *)
(* loop around Server.hello(), one daemon thread handle_client() per       *)
(* accepted connection, and Server.disconnect() on Ctrl+C.  Each client    *)
(* process runs client_option()/connect().  Threads interleave between the *)
(* steps below; nothing in the code locks the registry.                    *)
(***************************************************************************)
EXTENDS Integers, Sequences, FiniteSets, TLC

\* ------------------------------------------------------------------ bounds
\* Client processes of Spec; each connects once.
MaxClients == 1
\* Client processes of the runs with concurrent connections.
PairClients == 2
\* Client processes in the runs where they connect one after another.
MaxQueue == 7
\* Blocks each capture device delivers.
MaxChunks == 2
\* The largest package handed to Client.send, in bytes.
MaxBytes == 3
\* The number of calls of Server.broadcast in a run.
MaxBroadcasts == 1
\* The longest sample buffer handed to a Modulator.
MaxSamples == 4
\* The number of Modulator methods applied to one buffer.
MaxOps == 3
\* The largest socket package size the capture block is derived from.
MaxPackage == 8

Max(a, b) == IF a >= b THEN a ELSE b
\* Every client process of the model; a run uses the first few of them.
Client == 1..Max(Max(MaxClients, PairClients), MaxQueue)
NoClient == 0

\* --------------------------------------------------------------- constants
RED == "RED"
GREEN == "GREEN"
YELLOW == "YELLOW"
BLUE == "BLUE"
MAGENTA == "MAGENTA"
CYAN == "CYAN"
COLORS == <<RED, GREEN, YELLOW, BLUE, MAGENTA, CYAN>>

AM == "am"
AM_SC == "am-sc"
NO_MOD == "none"
modulations == {AM, AM_SC, NO_MOD}

DEFAULT_PORT == 33000
\* Largest port number the socket layer takes (bind/connect raise
\* OverflowError above it).
PortLimit == 65535

\* The five strings handle_client sends after the ack.
InfoStrings == <<"title", "welcome", "address", "listening", "hint">>
\* The two recv_str calls of connect() before the speaker is opened.
ClientInfoReads == 2

\* A registry key that hello() has not stored yet.
Unset == "<unset>"

\* Exception classes.  The first group is modules/socket/error.py and
\* modules/modulator/error.py; the second is raised by the socket layer.
DomainErrors ==
    {"SocketError", "ClientDisconnectedError", "ConnectionTimeoutError",
     "InvalidClientError", "InvalidNameError", "InvalidPortError",
     "PortAlreadyUsedError", "PortOutOfRangeError", "UndefinedNameError",
     "UnknownHostError", "InvalidModulationTypeError", "InvalidSignalTypeError"}
\* Subclasses of SocketError (caught by `except SocketError`).
SocketErrors == DomainErrors \ {"InvalidModulationTypeError", "InvalidSignalTypeError"}
OSLevelErrors ==
    {"ConnectionRefusedError", "ConnectionResetError", "BrokenPipeError",
     "OverflowError", "OSError"}
NoError == "none"

\* ------------------------------------------------------------------- state
VARIABLES
    socket,         \* Server's Node.__socket: "None", "listening", "closed" (fd closed, attribute still set)
    clients,        \* Server.__clients: accepted socket -> [color, name, modulation]
    clients_none,   \* TRUE while Server.__clients is None (or not yet created)
    logs,           \* Server's Node.__logs: "None" or "list"
    client_colors,  \* position of the cycle(COLORS) iterator: next() calls so far, mod 6
    main,           \* the server's main thread (server_option)
    worker,         \* worker[c]: the handle_client thread of c's connection
    cli,            \* cli[c]: client process c (Client object and its connect() option)
    net,            \* net[c]: the TCP connection of c: both directions and both ends
    backlog,        \* connections established but not yet accepted, oldest first
    accepted,       \* the connections accept() has returned, in order
    closed_io       \* first socket operation a Server helper made while is_open() was false

vars == <<socket, clients, clients_none, logs, client_colors, main, worker, cli,
          net, backlog, accepted, closed_io>>

srvVars == <<socket, clients, clients_none, logs>>

\* ----------------------------------------------------------------- helpers
\* Node.is_open of the server.
is_open == socket # "None"

\* The color after k calls of next() on cycle(COLORS), counted from 0.
ColorAt(k) == COLORS[(k % Len(COLORS)) + 1]

\* An iterator that does not advance.
NextColorPositionStuck(pos) == pos

\* next(self.__client_colors): the position after one more call.
NextColorPosition(pos) == (pos + 1) % Len(COLORS)

\* A string packet (send_str) and a PCM packet (Modulator.encode) on the wire.
StrPacket(text) == [kind |-> "str", text |-> text, src |-> NoClient, n |-> 0, stages |-> <<>>]
PcmPacket(c, n, stages) == [kind |-> "pcm", text |-> "", src |-> c, n |-> n, stages |-> stages]

\* A thread that holds no Modulator object yet.
NoModulator == [modulation |-> Unset, dtype |-> "none", signal |-> <<>>, den |-> 1,
                input |-> <<>>, block |-> 0, size |-> 0, ops |-> <<>>, package |-> <<>>]

IdleWorker == [pc |-> "none", err |-> NoError, modulation |-> Unset,
               seq |-> 0, pkt |-> StrPacket(""), mic |-> FALSE, ack |-> "-",
               recorded |-> NoModulator,
               tx |-> [state |-> "idle", ensure |-> TRUE, size |-> 0, written |-> 0,
                       writes |-> 0, result |-> "-"]]
NoConnection == [up |-> <<>>, down |-> <<>>, cli |-> "none", srv |-> "none"]

\* A check_client that reports an unknown client as a closed server.
check_clientAsClosed(c) ==
    IF ~is_open THEN "SocketError"
    ELSE IF clients_none THEN "AttributeError"
    ELSE IF c \notin DOMAIN clients THEN "SocketError"
    ELSE NoError

\* Server.check_client: what it raises, or NoError.  With __clients already
\* None and the socket attribute still set, `client not in
\* self.__clients.keys()` fails on None.
check_client(c) ==
    IF ~is_open THEN "SocketError"
    ELSE IF clients_none THEN "AttributeError"
    ELSE IF c \notin DOMAIN clients THEN "InvalidClientError"
    ELSE NoError

\* Node.log: check_connection, then self.__logs.append.
log_error ==
    IF ~is_open THEN "SocketError"
    ELSE IF logs = "None" THEN "AttributeError"
    ELSE NoError

\* An assignment that lands in every record of the registry.
SetKeyAll(c, key, value) ==
    [k \in DOMAIN clients \cup {c} |->
        IF k \in DOMAIN clients
        THEN [clients[k] EXCEPT ![key] = value]
        ELSE [[color |-> Unset, name |-> Unset, modulation |-> Unset] EXCEPT ![key] = value]]

\* self.__clients[client][key] = value
SetKey(c, key, value) ==
    [k \in DOMAIN clients \cup {c} |->
        IF k = c
        THEN IF c \in DOMAIN clients
             THEN [clients[c] EXCEPT ![key] = value]
             ELSE [[color |-> Unset, name |-> Unset, modulation |-> Unset] EXCEPT ![key] = value]
        ELSE clients[k]]

\* A del that empties the registry.
DelKeyAll(c) == <<>>

\* del self.__clients[client]
DelKey(c) == [k \in DOMAIN clients \ {c} |-> clients[k]]

\* No call has failed yet: the arguments of the last failed call.
NoArgs == <<"-">>

\* No Server.broadcast is running.  `targets` is the list the loop of
\* server.py 115 was built from, `black` the black list, `todo` what the loop
\* has not come to yet, `attempted` the clients self.send was called for.
NoBroadcast == [state |-> "idle", targets |-> {}, black |-> {}, todo |-> {}, attempted |-> {},
                err |-> "none", calls |-> 0]

\* No call of Client.send is running.  `size` is the length of the package,
\* `written` the bytes the socket has taken, `writes` the number of writes
\* made on the socket, `result` what the call returned.
NoSend == [state |-> "idle", ensure |-> TRUE, size |-> 0, written |-> 0, writes |-> 0,
           result |-> "-"]

\* Client(): no name, no socket.  `err` is the exception the last call
\* raised, `op` the call that raised it and `args` what it was given.
NewClient == [pc |-> "set_name", name |-> "None", modulation |-> "None", color |-> "None",
              err |-> NoError, op |-> "-", args |-> NoArgs,
              sock |-> "None", read |-> 0, infos |-> 0,
              played |-> <<>>, speaker |-> FALSE, tx |-> NoSend]

\* ------------------------------------------------------------------- Init
\* Server(GREEN) and Client() constructed, nothing connected.
Init ==
    /\ socket = "None"
    /\ clients = <<>>
    /\ clients_none = TRUE
    /\ logs = "None"
    /\ client_colors = 0
    /\ main = [pc |-> "bind", client |-> NoClient, err |-> NoError, port |-> NoArgs,
               busy |-> FALSE, seen |-> {}, size |-> 0, bc |-> NoBroadcast]
    /\ worker = [c \in Client |-> IdleWorker]
    /\ cli = [c \in Client |-> NewClient]
    /\ net = [c \in Client |-> NoConnection]
    /\ backlog = <<>>
    /\ accepted = <<>>
    /\ closed_io = "none"

\* ------------------------------------------------------- ports (int(port))
Digits == <<"0", "1", "2", "3", "4", "5", "6", "7", "8", "9">>
DigitValue(ch) == (CHOOSE i \in 1..10 : Digits[i] = ch) - 1
IsDigit(ch) == \E i \in 1..10 : Digits[i] = ch

\* int(text) for a text of decimal digits, most significant first.
RECURSIVE IntOf(_)
IntOf(text) ==
    IF text = <<>> THEN 0
    ELSE 10 * IntOf(SubSeq(text, 1, Len(text) - 1)) + DigitValue(text[Len(text)])

\* int(text) raises ValueError unless the text is a number.
IsInt(text) == text # <<>> /\ \A i \in 1..Len(text) : IsDigit(text[i])

\* What the menus can hand to connect(): blank, the default, out of range, not a number.
PortInputs == {<<>>, <<"3", "3", "0", "0", "0">>, <<"7", "0", "0", "0", "0">>, <<"a", "b", "c">>}

\* `if not port: port = DEFAULT_PORT`, then int(port).
PortNumber(text) == IF text = <<>> THEN DEFAULT_PORT ELSE IntOf(text)
PortParses(text) == text = <<>> \/ IsInt(text)

\* A Server.connect whose except clauses for OverflowError and ValueError
\* have changed places.
ServerConnectErrorSwapped(port, busy) ==
    IF ~PortParses(port) THEN "PortOutOfRangeError"
    ELSE IF PortNumber(port) > PortLimit THEN "InvalidPortError"
    ELSE IF busy THEN "PortAlreadyUsedError"
    ELSE NoError

\* Server.connect: the error its try block ends in, or NoError.  `busy` is
\* the bind() syscall failing (another listener holds the port).
ServerConnectError(port, busy) ==
    IF ~PortParses(port) THEN "InvalidPortError"
    ELSE IF PortNumber(port) > PortLimit THEN "PortOutOfRangeError"
    ELSE IF busy THEN "PortAlreadyUsedError"
    ELSE NoError

\* ---------------------------------------------------------- socket layer
\* client.recv(PACKAGE_SIZE) on the server's socket for c: a message, "" at
\* end of stream, or an exception.  Once the peer has closed, a read finds
\* the end of the stream or a reset.
\* A receive that gives up after a while and returns nothing.
ServerRecvOutcomesTimeout(c) ==
    IF net[c].srv = "closed" THEN {[err |-> "OSError", msg |-> ""]}
    ELSE IF net[c].up # <<>> THEN {[err |-> NoError, msg |-> Head(net[c].up)]}
    ELSE {[err |-> NoError, msg |-> ""]}

ServerRecvOutcomes(c) ==
    LET reset == [err |-> "ConnectionResetError", msg |-> ""]
        gone == IF net[c].cli = "closed" THEN {reset} ELSE {}
    IN  IF net[c].srv = "closed" THEN {[err |-> "OSError", msg |-> ""]}
        ELSE IF net[c].up # <<>> THEN {[err |-> NoError, msg |-> Head(net[c].up)]} \cup gone
        ELSE IF net[c].cli = "closed" THEN {[err |-> NoError, msg |-> ""]} \cup gone
        ELSE {}

\* client.send(package) on the server's socket for c: TRUE for written, FALSE
\* for BrokenPipeError/ConnectionResetError/OSError.  A write to a peer that
\* has gone may still be taken by the kernel.
ServerSendOutcomes(c) ==
    IF net[c].srv = "closed" THEN {FALSE}
    ELSE IF net[c].cli = "open" THEN {TRUE}
    ELSE {TRUE, FALSE}

\* A Server.send that lets the error of the socket through.
SendErrorRaw == "BrokenPipeError"

\* server.py 497-501: `except (BrokenPipeError, ConnectionResetError,
\* OSError): raise ClientDisconnectedError()`, what Server.send raises for a
\* write that fails.
SendError == "ClientDisconnectedError"

\* A write that never reaches the peer.
DeliveredNot(c, packet) == net

\* The bytes reach the peer only while it is there.
Delivered(c, packet) ==
    IF net[c].cli = "open" THEN [net EXCEPT ![c].down = Append(@, packet)] ELSE net

\* Server.recv has no check_connection: it reads the socket whatever the session state.
NoteClosedIO(op) == IF closed_io = "none" /\ ~is_open THEN op ELSE closed_io

\* The main thread ends with an uncaught exception: the interpreter exits,
\* the daemon threads die with it and the OS closes every socket.
ProcessExit(e) ==
    /\ main' = [main EXCEPT !.pc = "crashed", !.err = e, !.client = NoClient]
    /\ worker' = [c \in Client |->
                    IF worker[c].pc \in {"none", "done", "dead"} THEN worker[c]
                    ELSE [IdleWorker EXCEPT !.pc = "killed"]]
    /\ net' = [c \in Client |->
                    IF net[c].srv \in {"open", "queued"} THEN [net[c] EXCEPT !.srv = "closed"]
                    ELSE net[c]]
    /\ backlog' = <<>>

Listening == socket = "listening" /\ main.pc # "crashed"

\* ------------------------------------------------- server_option: the bind
\* menu.py 119-174: Server.connect succeeded, the banner is logged.
ServerConnect(port) ==
    /\ main.pc = "bind"
    /\ ServerConnectError(port, FALSE) = NoError
    /\ clients' = <<>>
    /\ clients_none' = FALSE
    /\ logs' = "list"
    /\ socket' = "listening"
    /\ main' = [main EXCEPT !.pc = "hello", !.err = NoError, !.port = NoArgs, !.busy = FALSE]
    /\ UNCHANGED <<client_colors, worker, cli, net, backlog, accepted, closed_io>>

\* menu.py 143-159: Server.connect raised, the menu asks again.
ServerConnectFails(port, busy) ==
    /\ main.pc = "bind"
    /\ ServerConnectError(port, busy) # NoError
    /\ main' = [main EXCEPT !.err = ServerConnectError(port, busy), !.port = port,
                            !.busy = busy]
    /\ UNCHANGED <<srvVars, client_colors, worker, cli, net, backlog, accepted, closed_io>>

\* ------------------------------------------------------------ Server.hello
\* select() reports a pending connection; accept, next color, new registry entry.
HelloAccept ==
    /\ main.pc = "hello"
    /\ is_open
    /\ backlog # <<>>
    /\ LET c == Head(backlog) IN
        /\ backlog' = Tail(backlog)
        /\ net' = [net EXCEPT ![c].srv = "open"]
        /\ client_colors' = NextColorPosition(client_colors)
        /\ clients' = SetKey(c, "color", ColorAt(client_colors))
        /\ main' = [main EXCEPT !.pc = "hello_name", !.client = c]
        /\ accepted' = Append(accepted, c)
    /\ UNCHANGED <<socket, clients_none, logs, worker, cli, closed_io>>

\* self.__clients[client]['name'] = self.recv_str(client)
HelloRecvName ==
    /\ main.pc = "hello_name"
    /\ \E r \in ServerRecvOutcomes(main.client) :
        /\ r.err = NoError
        /\ clients' = SetKey(main.client, "name", r.msg)
        /\ net' = [net EXCEPT ![main.client].up = IF @ = <<>> THEN @ ELSE Tail(@)]
    /\ main' = [main EXCEPT !.pc = "hello_color"]
    /\ closed_io' = NoteClosedIO("Server.recv")
    /\ UNCHANGED <<socket, clients_none, logs, client_colors, worker, cli, backlog, accepted>>

\* self.send_str(client, color)
HelloSendColor ==
    /\ main.pc = "hello_color"
    /\ check_client(main.client) = NoError
    /\ TRUE \in ServerSendOutcomes(main.client)
    /\ net' = Delivered(main.client, StrPacket(clients[main.client].color))
    /\ main' = [main EXCEPT !.pc = "hello_modulation"]
    /\ UNCHANGED <<srvVars, client_colors, worker, cli, backlog, accepted, closed_io>>

\* self.__clients[client]['modulation'] = self.recv_str(client); return client
HelloRecvModulation ==
    /\ main.pc = "hello_modulation"
    /\ \E r \in ServerRecvOutcomes(main.client) :
        /\ r.err = NoError
        /\ clients' = SetKey(main.client, "modulation", r.msg)
        /\ net' = [net EXCEPT ![main.client].up = IF @ = <<>> THEN @ ELSE Tail(@)]
    /\ main' = [main EXCEPT !.pc = "start_thread"]
    /\ closed_io' = NoteClosedIO("Server.recv")
    /\ UNCHANGED <<socket, clients_none, logs, client_colors, worker, cli, backlog, accepted>>

\* A recv or the send inside hello() raises: nothing in server_option or
\* pyradio.py catches it (they catch EOFError and KeyboardInterrupt only).
HelloFails ==
    /\ \/ /\ main.pc \in {"hello_name", "hello_modulation"}
          /\ \E r \in ServerRecvOutcomes(main.client) :
                /\ r.err # NoError
                /\ ProcessExit(r.err)
       \/ /\ main.pc = "hello_color"
          /\ FALSE \in ServerSendOutcomes(main.client)
          /\ ProcessExit(SendError)
    /\ UNCHANGED <<srvVars, client_colors, cli, accepted, closed_io>>

\* An accept loop that starts the thread and waits for it to end.
StartThreadAndJoin ==
    /\ main.pc = "start_thread"
    /\ worker' = [worker EXCEPT ![main.client] = [IdleWorker EXCEPT !.pc = "lookup"]]
    /\ main' = [main EXCEPT !.pc = "join"]
    /\ UNCHANGED <<srvVars, client_colors, cli, net, backlog, accepted, closed_io>>

\* Server.broadcast(package, black_list) called between two accepts by the
\* owner of the server: check_connection, then the list of server.py 115,
\* `list(set(self.__clients) - set(black_list))`.
ServerBroadcast(black) ==
    /\ main.pc = "hello"
    /\ is_open
    /\ ~clients_none
    /\ main.bc.calls < MaxBroadcasts
    /\ main' = [main EXCEPT !.pc = IF DOMAIN clients \ black = {} THEN "hello" ELSE "broadcast",
                            !.bc = [state |-> IF DOMAIN clients \ black = {} THEN "returned" ELSE "running",
                                    targets |-> DOMAIN clients \ black,
                                    black |-> black,
                                    todo |-> DOMAIN clients \ black,
                                    attempted |-> {},
                                    err |-> NoError,
                                    calls |-> main.bc.calls + 1]]
    /\ UNCHANGED <<srvVars, client_colors, worker, cli, net, backlog, accepted, closed_io>>

\* One round of the loop: self.send(client, package, ensure) goes through.
\* After the last one broadcast returns.
BroadcastSend(c) ==
    /\ main.pc = "broadcast"
    /\ c \in main.bc.todo
    /\ check_client(c) = NoError
    /\ TRUE \in ServerSendOutcomes(c)
    /\ net' = Delivered(c, StrPacket("broadcast"))
    /\ main' = [main EXCEPT !.pc = IF main.bc.todo = {c} THEN "hello" ELSE @,
                            !.bc.todo = @ \ {c},
                            !.bc.attempted = @ \cup {c},
                            !.bc.state = IF main.bc.todo = {c} THEN "returned" ELSE @]
    /\ UNCHANGED <<srvVars, client_colors, worker, cli, backlog, accepted, closed_io>>

\* self.send raises ClientDisconnectedError: nothing in broadcast catches
\* it, the loop ends there and the caller, who catches it, goes on.
BroadcastSendFails(c) ==
    /\ main.pc = "broadcast"
    /\ c \in main.bc.todo
    /\ check_client(c) = NoError
    /\ FALSE \in ServerSendOutcomes(c)
    /\ main' = [main EXCEPT !.pc = "hello",
                            !.bc.attempted = @ \cup {c},
                            !.bc.todo = @ \ {c},
                            !.bc.state = "raised",
                            !.bc.err = SendError]
    /\ UNCHANGED <<srvVars, client_colors, worker, cli, net, backlog, accepted, closed_io>>

\* Thread(target=handle_client, args=(server, client), daemon=True).start()
StartThread ==
    /\ main.pc = "start_thread"
    /\ worker' = [worker EXCEPT ![main.client] = [IdleWorker EXCEPT !.pc = "lookup"]]
    /\ main' = [main EXCEPT !.pc = "hello", !.client = NoClient]
    /\ UNCHANGED <<srvVars, client_colors, cli, net, backlog, accepted, closed_io>>

\* ------------------------------------- Ctrl+C, then Server.disconnect
AcceptLoopPcs == {"hello", "hello_name", "hello_color", "hello_modulation", "start_thread"}

\* KeyboardInterrupt in the accept loop: the handler logs and enters
\* disconnect(), whose `for client in self.__clients` starts iterating.
Interrupt ==
    /\ main.pc \in AcceptLoopPcs
    /\ main' = [main EXCEPT !.pc = "disconnect_clients", !.seen = {},
                            !.size = Cardinality(DOMAIN clients)]
    /\ UNCHANGED <<srvVars, client_colors, worker, cli, net, backlog, accepted, closed_io>>

\* One round of the loop: the iterator's size check, then client.close()
\* for the next key.
DisconnectClient ==
    /\ main.pc = "disconnect_clients"
    /\ Cardinality(DOMAIN clients) = main.size
    /\ \E c \in DOMAIN clients \ main.seen :
        /\ net' = [net EXCEPT ![c].srv = "closed"]
        /\ main' = [main EXCEPT !.seen = @ \cup {c}]
    /\ UNCHANGED <<srvVars, client_colors, worker, cli, backlog, accepted, closed_io>>

\* A worker's bye() removed a key meanwhile: "dictionary changed size during
\* iteration" leaves the handler uncaught.
DisconnectIterationFails ==
    /\ main.pc = "disconnect_clients"
    /\ Cardinality(DOMAIN clients) # main.size
    /\ ProcessExit("RuntimeError")
    /\ UNCHANGED <<srvVars, client_colors, cli, accepted, closed_io>>

\* The loop is exhausted: self.get_socket().close()
DisconnectSocket ==
    /\ main.pc = "disconnect_clients"
    /\ Cardinality(DOMAIN clients) = main.size
    /\ DOMAIN clients \subseteq main.seen
    /\ socket' = "closed"
    /\ backlog' = <<>>
    /\ net' = [c \in Client |-> IF net[c].srv = "queued" THEN [net[c] EXCEPT !.srv = "closed"] ELSE net[c]]
    /\ main' = [main EXCEPT !.pc = "disconnect_reset"]
    /\ UNCHANGED <<clients, clients_none, logs, client_colors, worker, cli, accepted, closed_io>>

\* self.__clients = None; self.set_logs(None)
DisconnectReset ==
    /\ main.pc = "disconnect_reset"
    /\ clients' = <<>>
    /\ clients_none' = TRUE
    /\ logs' = "None"
    /\ main' = [main EXCEPT !.pc = "disconnect_set_socket"]
    /\ UNCHANGED <<socket, client_colors, worker, cli, net, backlog, accepted, closed_io>>

\* self.set_socket(None)
DisconnectSetSocket ==
    /\ main.pc = "disconnect_set_socket"
    /\ socket' = "None"
    /\ main' = [main EXCEPT !.pc = "leave", !.seen = {}, !.size = 0]
    /\ UNCHANGED <<clients, clients_none, logs, client_colors, worker, cli, net, backlog, accepted, closed_io>>

\* menu.py 100, 202-203: Ctrl+C at the port prompt, before any
\* Server.connect succeeded; the outer handler passes and server_option goes
\* on to its last server.disconnect().
InterruptAtPrompt ==
    /\ main.pc = "bind"
    /\ main' = [main EXCEPT !.pc = "leave"]
    /\ UNCHANGED <<srvVars, client_colors, worker, cli, net, backlog, accepted, closed_io>>

\* A disconnect() that closes the socket without asking is_open(): on a
\* server that has no socket get_socket() returns None.
ServerLeaveUnchecked ==
    /\ main.pc = "leave"
    /\ ProcessExit("AttributeError")
    /\ UNCHANGED <<srvVars, client_colors, cli, accepted, closed_io>>

\* menu.py 205-208: the second server.disconnect(), on a closed server.
ServerLeave ==
    /\ main.pc = "leave"
    /\ ~is_open
    /\ clients' = <<>>
    /\ clients_none' = TRUE
    /\ logs' = "None"
    /\ socket' = "None"
    /\ main' = [main EXCEPT !.pc = "done"]
    /\ UNCHANGED <<client_colors, worker, cli, net, backlog, accepted, closed_io>>

\* ------------------------------------------------------------ handle_client
\* The thread ends with an uncaught exception; a `with` block it was in
\* closes the microphone on the way out.
Dies(c, e) == worker' = [worker EXCEPT ![c] = [IdleWorker EXCEPT !.pc = "dead", !.err = e]]

\* The thread returns.
Returns(c, e) == worker' = [worker EXCEPT ![c] = [IdleWorker EXCEPT !.pc = "done", !.err = e]]

\* server.address(client), get_color, get_name: check_client, then
\* client.getpeername(), which fails on a closed socket and on a connection
\* the peer has reset.
LookupErrors(c) ==
    IF check_client(c) # NoError THEN {check_client(c)}
    ELSE IF net[c].srv = "closed" THEN {"OSError"}
    ELSE IF net[c].cli = "closed" THEN {NoError, "OSError"}
    ELSE {NoError}

\* threads.py 37-44
WorkerLookup(c) ==
    /\ worker[c].pc = "lookup"
    /\ NoError \in LookupErrors(c)
    /\ worker' = [worker EXCEPT ![c].pc = "ack"]
    /\ UNCHANGED <<srvVars, client_colors, main, cli, net, backlog, accepted, closed_io>>

\* A worker that takes any answer for the 'OK'.
AcknowledgedAny(msg) == TRUE

\* threads.py 47: the test `server.recv_str(client) != 'OK'`, negated.
Acknowledged(msg) == msg = "OK"

\* threads.py 46-47: the worker receives the client's answer to the question
\* "send?"; anything but 'OK' leads to bye().
WorkerRecvAck(c) ==
    /\ worker[c].pc = "ack"
    /\ \E r \in ServerRecvOutcomes(c) :
        /\ r.err = NoError
        /\ worker' = [worker EXCEPT ![c].pc = IF Acknowledged(r.msg) THEN "get_modulation" ELSE "bye",
                                    ![c].ack = r.msg]
        /\ net' = [net EXCEPT ![c].up = IF @ = <<>> THEN @ ELSE Tail(@)]
    /\ closed_io' = NoteClosedIO("Server.recv")
    /\ UNCHANGED <<srvVars, client_colors, main, cli, backlog, accepted>>

\* Server.bye: self.check_client(client)
WorkerByeCheck(c) ==
    /\ worker[c].pc = "bye"
    /\ check_client(c) = NoError
    /\ worker' = [worker EXCEPT ![c].pc = "bye_remove"]
    /\ UNCHANGED <<srvVars, client_colors, main, cli, net, backlog, accepted, closed_io>>

\* Server.bye: client.close(); del self.__clients[client]
WorkerByeRemove(c) ==
    /\ worker[c].pc = "bye_remove"
    /\ ~clients_none
    /\ c \in DOMAIN clients
    /\ net' = [net EXCEPT ![c].srv = "closed"]
    /\ clients' = DelKey(c)
    /\ worker' = [worker EXCEPT ![c].pc = "bye_log"]
    /\ UNCHANGED <<socket, clients_none, logs, client_colors, main, cli, backlog, accepted, closed_io>>

\* server.log('... left the server'): after a failed ack the function goes
\* on to get_modulation (threads.py 57); in the except block it is the end
\* of the thread, and the `with` closes the microphone.
WorkerByeLog(c) ==
    /\ worker[c].pc = "bye_log"
    /\ log_error = NoError
    /\ IF ~Acknowledged(worker[c].ack)
       THEN worker' = [worker EXCEPT ![c].pc = "get_modulation"]
       ELSE Returns(c, NoError)
    /\ UNCHANGED <<srvVars, client_colors, main, cli, net, backlog, accepted, closed_io>>

\* Server.bye called once more by the holder of a handle whose first bye()
\* has returned: check_client at server.py 157 raises, nothing is closed or
\* removed, and the error ends the caller.
ByeAgain(c) ==
    /\ worker[c].pc = "get_modulation"
    /\ ~Acknowledged(worker[c].ack)
    /\ check_client(c) # NoError
    /\ Dies(c, check_client(c))
    /\ UNCHANGED <<srvVars, client_colors, main, cli, net, backlog, accepted, closed_io>>

\* threads.py 57-65: modulation = server.get_modulation(client); server.log
WorkerGetModulation(c) ==
    /\ worker[c].pc = "get_modulation"
    /\ check_client(c) = NoError
    /\ log_error = NoError
    /\ worker' = [worker EXCEPT ![c].pc = "info", ![c].modulation = clients[c].modulation]
    /\ UNCHANGED <<srvVars, client_colors, main, cli, net, backlog, accepted, closed_io>>

\* Delivered, for several packets in a row.
DeliveredAll(c, packets) ==
    IF net[c].cli # "open" \/ packets = <<>> THEN net
    ELSE [net EXCEPT ![c].down = @ \o packets]

\* threads.py 67-89: the five server.send_str(client, ...) in a row (each
\* check_client, then client.send), then the microphone is opened.
WorkerInfo(c) ==
    /\ worker[c].pc = "info"
    /\ check_client(c) = NoError
    /\ TRUE \in ServerSendOutcomes(c)
    /\ net' = DeliveredAll(c, [i \in 1..Len(InfoStrings) |-> StrPacket(InfoStrings[i])])
    /\ worker' = [worker EXCEPT ![c].pc = "record", ![c].mic = TRUE]
    /\ UNCHANGED <<srvVars, client_colors, main, cli, backlog, accepted, closed_io>>

\* A worker that modulates before it filters.
WorkerStagesModulateFirst(modulation) ==
    IF modulation = NO_MOD THEN <<"encode">> ELSE <<"modulate", "lowpass", "encode">>

\* The stages threads.py 96-113 applies to a recorded block.
WorkerStages(modulation) ==
    IF modulation = NO_MOD THEN <<"encode">> ELSE <<"lowpass", "modulate", "encode">>

\* recorded = M(modulation, microphone.read(CHUNK_SIZE)[0]), the transforms, encode()
WorkerRecord(c) ==
    /\ worker[c].pc = "record"
    /\ worker[c].seq < MaxChunks
    /\ worker[c].modulation \in modulations
    /\ worker' = [worker EXCEPT ![c].pc = "send", ![c].seq = @ + 1,
                                ![c].pkt = PcmPacket(c, worker[c].seq + 1,
                                                     WorkerStages(worker[c].modulation))]
    /\ UNCHANGED <<srvVars, client_colors, main, cli, net, backlog, accepted, closed_io>>

\* A worker that writes to the socket of the client next to its own.
SendTargetOther(c) == IF c = 1 THEN 2 ELSE c - 1

\* The socket the worker writes its packet to: its own client.
SendTarget(c) == c

\* server.send(client, ...encode()): check_client, then client.send(package)
WorkerSend(c) ==
    /\ worker[c].pc = "send"
    /\ check_client(c) = NoError
    /\ TRUE \in ServerSendOutcomes(SendTarget(c))
    /\ net' = Delivered(SendTarget(c), worker[c].pkt)
    /\ worker' = [worker EXCEPT ![c].pc = "record", ![c].pkt = StrPacket("")]
    /\ UNCHANGED <<srvVars, client_colors, main, cli, backlog, accepted, closed_io>>

\* Server.send raises ClientDisconnectedError inside the try: the except
\* block of threads.py 116 is entered.
WorkerSendFails(c) ==
    /\ worker[c].pc = "send"
    /\ check_client(c) = NoError
    /\ FALSE \in ServerSendOutcomes(c)
    /\ worker' = [worker EXCEPT ![c].pc = "handler", ![c].err = SendError,
                                ![c].pkt = StrPacket("")]
    /\ UNCHANGED <<srvVars, client_colors, main, cli, net, backlog, accepted, closed_io>>

\* threads.py 118-125: the lookups of the except block
WorkerHandler(c) ==
    /\ worker[c].pc = "handler"
    /\ NoError \in LookupErrors(c)
    /\ worker' = [worker EXCEPT ![c].pc = "bye", ![c].err = NoError]
    /\ UNCHANGED <<srvVars, client_colors, main, cli, net, backlog, accepted, closed_io>>

\* threads.py 137-138: check_client raised a SocketError inside the try
\* (server shut down, or the entry is gone): `pass`, the thread returns.
WorkerServerClosed(c) ==
    /\ worker[c].pc = "send"
    /\ check_client(c) \in SocketErrors
    /\ Returns(c, check_client(c))
    /\ UNCHANGED <<srvVars, client_colors, main, cli, net, backlog, accepted, closed_io>>

\* Every way the thread ends with an exception nothing catches.
WorkerDies(c) ==
    /\ \/ /\ worker[c].pc \in {"lookup", "handler"}
          /\ \E e \in LookupErrors(c) \ {NoError} : Dies(c, e)
          /\ UNCHANGED closed_io
       \/ /\ worker[c].pc = "ack"
          /\ \E r \in ServerRecvOutcomes(c) : r.err # NoError /\ Dies(c, r.err)
          /\ closed_io' = NoteClosedIO("Server.recv")
       \/ /\ worker[c].pc \in {"bye", "get_modulation", "info"}
          /\ check_client(c) # NoError
          /\ Dies(c, check_client(c))
          /\ UNCHANGED closed_io
       \/ /\ worker[c].pc = "send"
          /\ check_client(c) \notin SocketErrors \cup {NoError}
          /\ Dies(c, check_client(c))
          /\ UNCHANGED closed_io
       \/ /\ worker[c].pc = "bye_remove"
          /\ clients_none
          /\ Dies(c, "TypeError")
          /\ UNCHANGED closed_io
       \/ /\ worker[c].pc = "bye_log"
          /\ log_error # NoError
          /\ Dies(c, log_error)
          /\ UNCHANGED closed_io
       \/ /\ worker[c].pc = "info"
          /\ check_client(c) = NoError
          /\ FALSE \in ServerSendOutcomes(c)
          /\ Dies(c, SendError)
          /\ UNCHANGED closed_io
       \/ /\ worker[c].pc = "record"
          /\ worker[c].modulation \notin modulations
          /\ Dies(c, "InvalidModulationTypeError")
          /\ UNCHANGED closed_io
    /\ UNCHANGED <<srvVars, client_colors, main, cli, net, backlog, accepted>>

\* ------------------------------------------------------------------ Client
DEFAULT_HOST == "127.0.0.1"
HostName(host) == IF host = "" THEN DEFAULT_HOST ELSE host
Resolves(host) == HostName(host) # "no.such.host"
Answers(host) == HostName(host) = "127.0.0.1"

\* Client.connect up to sock.connect(server): what it raises, or NoError.
\* After the two precondition checks: int(port) (ValueError), the address
\* lookup (gaierror) and the port range check (OverflowError, which no
\* except clause names) inside sock.connect, then the connection attempt.
\* A Client.connect that looks at the modulation before the name.
ClientConnectErrorModulationFirst(c, modulation, host, port) ==
    IF modulation \notin modulations THEN "InvalidModulationTypeError"
    ELSE IF cli[c].name = "None" THEN "UndefinedNameError"
    ELSE IF ~PortParses(port) THEN "InvalidPortError"
    ELSE IF ~Resolves(host) THEN "UnknownHostError"
    ELSE IF PortNumber(port) > PortLimit THEN "OverflowError"
    ELSE IF ~Answers(host) THEN "ConnectionTimeoutError"
    ELSE IF ~Listening THEN "ConnectionRefusedError"
    ELSE NoError

ClientConnectError(c, modulation, host, port) ==
    IF cli[c].name = "None" THEN "UndefinedNameError"
    ELSE IF modulation \notin modulations THEN "InvalidModulationTypeError"
    ELSE IF ~PortParses(port) THEN "InvalidPortError"
    ELSE IF ~Resolves(host) THEN "UnknownHostError"
    ELSE IF PortNumber(port) > PortLimit THEN "OverflowError"
    ELSE IF ~Answers(host) THEN "ConnectionTimeoutError"
    ELSE IF ~Listening THEN "ConnectionRefusedError"
    ELSE NoError

\* self.get_socket().recv(PACKAGE_SIZE) on the client's socket.
ClientRecvOutcomes(c) ==
    LET unread == cli[c].read < Len(net[c].down)
        data == [err |-> NoError, eof |-> FALSE]
        eof == [err |-> NoError, eof |-> TRUE]
        reset == [err |-> "ConnectionResetError", eof |-> FALSE]
    IN  IF unread THEN {data} \cup (IF net[c].srv = "closed" THEN {reset} ELSE {})
        ELSE IF net[c].srv = "closed" THEN {eof, reset}
        ELSE {}

\* The packet the next recv returns.
NextPacket(c) == net[c].down[cli[c].read + 1]

\* self.get_socket().send(package) on the client's socket: TRUE for written,
\* FALSE for BrokenPipeError.
ClientSendOutcomes(c) == IF net[c].srv = "closed" THEN {TRUE, FALSE} ELSE {TRUE}

Sent(c, text) ==
    IF net[c].srv = "closed" THEN net ELSE [net EXCEPT ![c].up = Append(@, text)]

\* The client process ends (an uncaught exception, or it is killed): the OS
\* closes its socket.
ProcessGone(c, e) ==
    /\ cli' = [cli EXCEPT ![c] = [NewClient EXCEPT !.pc = "crashed", !.err = e,
                                                   !.op = cli[c].op]]
    /\ net' = [net EXCEPT ![c].cli = IF @ = "open" THEN "closed" ELSE @,
                          ![c].down = <<>>]

\* A set_name that takes every name.
SetNameErrorNever(name) == NoError

\* client.py 344-351: `if name is not None: if not name: raise
\* InvalidNameError(...)`, what set_name raises for a name, or NoError.
SetNameError(name) == IF name = "" THEN "InvalidNameError" ELSE NoError

\* Client.set_name with a name that is not empty.
ClientSetName(c, name) ==
    /\ cli[c].pc \in {"set_name", "menu"}
    /\ SetNameError(name) = NoError
    /\ cli' = [cli EXCEPT ![c].name = name, ![c].pc = "menu", ![c].err = NoError,
                          ![c].op = "-", ![c].args = NoArgs]
    /\ UNCHANGED <<srvVars, client_colors, main, worker, net, backlog, accepted, closed_io>>

\* Client.set_name(''): InvalidNameError, the menu asks again.
ClientSetNameFails(c, name) ==
    /\ cli[c].pc \in {"set_name", "menu"}
    /\ SetNameError(name) # NoError
    /\ cli' = [cli EXCEPT ![c].err = SetNameError(name), ![c].op = "set_name",
                          ![c].args = <<name>>]
    /\ UNCHANGED <<srvVars, client_colors, main, worker, net, backlog, accepted, closed_io>>

\* client.py 31-35: Client.__init__ calls set_name before Node.__init__ has
\* assigned the socket field (node.py 19-23).  For the empty name the
\* argument of `raise InvalidNameError(self.get_socket())` (client.py 351)
\* is evaluated first, and get_socket reads the field that does not exist
\* yet (node.py 77).  What Client(name) raises, or NoError.
ConstructError(name) ==
    IF name = "None" THEN NoError
    ELSE IF name = "" THEN "AttributeError"
    ELSE SetNameError(name)

\* Client(name) by a caller that has no session yet: the object that
\* replaces the client of menu.py 30, or the exception of the constructor.
ClientConstruct(c, name) ==
    /\ cli[c].pc = "set_name"
    /\ cli[c].name = "None"
    /\ cli' = [cli EXCEPT ![c] =
                IF ConstructError(name) # NoError
                THEN [NewClient EXCEPT !.err = ConstructError(name), !.op = "__init__",
                                       !.args = <<name>>]
                ELSE [NewClient EXCEPT !.name = name,
                                       !.pc = IF name = "None" THEN "set_name" ELSE "menu"]]
    /\ UNCHANGED <<srvVars, client_colors, main, worker, net, backlog, accepted, closed_io>>

\* Client.connect, client.py 111-188: the connection is established and the
\* name is sent.  (The model follows each client process through its first
\* connection.)
ClientConnect(c, modulation, host, port) ==
    /\ cli[c].pc = "menu"
    /\ net[c].cli = "none"
    /\ ClientConnectError(c, modulation, host, port) = NoError
    /\ cli' = [cli EXCEPT ![c].pc = "recv_color", ![c].sock = "open", ![c].err = NoError,
                          ![c].op = "-", ![c].args = NoArgs,
                          ![c].modulation = modulation]
    /\ net' = [net EXCEPT ![c] = [up |-> <<cli[c].name>>, down |-> <<>>,
                                  cli |-> "open", srv |-> "queued"]]
    /\ backlog' = Append(backlog, c)
    /\ UNCHANGED <<srvVars, client_colors, main, worker, accepted, closed_io>>

\* The errors options.py 140-154 reports before asking again.
HandledConnectErrors ==
    {"ConnectionRefusedError", "ConnectionTimeoutError", "InvalidPortError", "UnknownHostError"}

\* Client.connect raises before any socket is stored.
ClientConnectFails(c, modulation, host, port) ==
    /\ cli[c].pc = "menu"
    /\ net[c].cli = "none"
    /\ LET e == ClientConnectError(c, modulation, host, port) IN
        /\ e # NoError
        /\ cli' = [cli EXCEPT ![c].err = e, ![c].op = "connect",
                              ![c].args = <<modulation, host, port>>,
                              ![c].pc = IF e \in HandledConnectErrors THEN "menu" ELSE "crashed"]
    /\ UNCHANGED <<srvVars, client_colors, main, worker, net, backlog, accepted, closed_io>>

\* Client.connect on a client that was given no name yet (a caller other
\* than client_option, which names the client first): check_name raises at
\* client.py 112 and the caller goes on.
ClientConnectUnnamed(c, modulation, host, port) ==
    /\ cli[c].pc = "set_name"
    /\ cli[c].name = "None"
    /\ net[c].cli = "none"
    /\ ClientConnectError(c, modulation, host, port) # NoError
    /\ cli' = [cli EXCEPT ![c].err = ClientConnectError(c, modulation, host, port),
                          ![c].op = "connect",
                          ![c].args = <<modulation, host, port>>]
    /\ UNCHANGED <<srvVars, client_colors, main, worker, net, backlog, accepted, closed_io>>

\* client.py 296-297: `self.get_socket().send(package) if ensure else
\* self.get_socket().sendall(package)`.  TRUE when the call is sendall, which
\* writes until the package is through; send makes one write.
UsesSendall(ensure) == ~ensure

\* Client.send(package, ensure) by a caller that holds a connected client:
\* check_connection passes and the call starts on a package of `size` bytes.
ClientSendCall(c, size, ensure) ==
    /\ cli[c].pc = "press_enter"
    /\ cli[c].sock = "open"
    /\ cli[c].tx.state \in {"idle", "returned"}
    /\ cli' = [cli EXCEPT ![c].tx = [NoSend EXCEPT !.state = "writing", !.ensure = ensure,
                                                   !.size = size]]
    /\ UNCHANGED <<srvVars, client_colors, main, worker, net, backlog, accepted, closed_io>>

\* One write on the socket: the kernel takes `k` bytes, at least one and at
\* most what is left.  send returns after it with the number of bytes;
\* sendall returns None once nothing is left.
ClientSendWrite(c, k) ==
    /\ cli[c].tx.state = "writing"
    /\ k \in 1..(cli[c].tx.size - cli[c].tx.written)
    /\ LET tx == cli[c].tx
           written == tx.written + k
           more == UsesSendall(tx.ensure) /\ written < tx.size
       IN  cli' = [cli EXCEPT ![c].tx = [tx EXCEPT !.written = written,
                                                   !.writes = @ + 1,
                                                   !.state = IF more THEN "writing" ELSE "returned",
                                                   !.result = IF more THEN "-"
                                                              ELSE IF UsesSendall(tx.ensure) THEN "None"
                                                              ELSE written]]
    /\ UNCHANGED <<srvVars, client_colors, main, worker, net, backlog, accepted, closed_io>>

\* server.send(client, ...encode()) on a package of `size` bytes, with the
\* default ensure=True (server.py 492-496): check_client, then `client.send(
\* package) if ensure else client.sendall(package)`.  The one write of send
\* takes k bytes, at least one and at most the package, and its count is
\* what the call returns; sendall writes until the package is through.
WorkerSendBytes(c, size, k) ==
    /\ worker[c].pc = "send"
    /\ check_client(c) = NoError
    /\ TRUE \in ServerSendOutcomes(SendTarget(c))
    /\ k \in 1..size
    /\ net' = Delivered(SendTarget(c), worker[c].pkt)
    /\ LET written == IF UsesSendall(TRUE) THEN size ELSE k IN
        worker' = [worker EXCEPT ![c].pc = "record", ![c].pkt = StrPacket(""),
                                 ![c].tx = [state |-> "returned", ensure |-> TRUE,
                                            size |-> size, written |-> written, writes |-> 1,
                                            result |-> IF UsesSendall(TRUE) THEN "None"
                                                       ELSE written]]
    /\ UNCHANGED <<srvVars, client_colors, main, cli, backlog, accepted, closed_io>>

\* client.py 190-194: self.__color = self.recv_str(); self.send_str(self.__modulation)
ClientRecvColor(c) ==
    /\ cli[c].pc = "recv_color"
    /\ \E r \in ClientRecvOutcomes(c) :
        /\ r.err = NoError
        /\ cli' = [cli EXCEPT ![c].pc = "press_enter",
                              ![c].color = IF r.eof THEN "" ELSE NextPacket(c).text,
                              ![c].read = IF r.eof THEN @ ELSE @ + 1]
    /\ TRUE \in ClientSendOutcomes(c)
    /\ net' = Sent(c, cli[c].modulation)
    /\ UNCHANGED <<srvVars, client_colors, main, worker, backlog, accepted, closed_io>>

\* options.py 132-136: Enter pressed, client.send_str('OK')
ClientSendOK(c) ==
    /\ cli[c].pc = "press_enter"
    /\ TRUE \in ClientSendOutcomes(c)
    /\ net' = Sent(c, "OK")
    /\ cli' = [cli EXCEPT ![c].pc = "recv_info", ![c].tx = NoSend]
    /\ UNCHANGED <<srvVars, client_colors, main, worker, backlog, accepted, closed_io>>

\* options.py 162-170: client.log(client.recv_str()), twice, then the speaker
ClientRecvInfo(c) ==
    /\ cli[c].pc = "recv_info"
    /\ \E r \in ClientRecvOutcomes(c) :
        /\ r.err = NoError
        /\ cli' = [cli EXCEPT ![c].infos = @ + 1,
                              ![c].read = IF r.eof THEN @ ELSE @ + 1,
                              ![c].pc = IF cli[c].infos + 1 = ClientInfoReads THEN "recv" ELSE @,
                              ![c].speaker = (cli[c].infos + 1 = ClientInfoReads)]
    /\ UNCHANGED <<srvVars, client_colors, main, worker, net, backlog, accepted, closed_io>>

\* Modulator.__set_signal and output (modulator.py): np.frombuffer(signal,
\* np.int16) and reshape((len // CHANNELS, CHANNELS)) raise ValueError for a
\* package whose size is not a whole number of frames; the text of an
\* informational string may or may not be one.
DecodeOutcomes(packet) == IF packet.kind = "str" THEN {NoError, "ValueError"} ELSE {NoError}

\* The stages options.py 180-200 applies to a received package.
ClientStages(modulation) ==
    IF modulation = NO_MOD THEN <<"output">> ELSE <<"demodulate", "lowpass", "output">>

\* What recv returns at the end of the stream: b''.
EmptyPackage == [kind |-> "empty", text |-> "", src |-> NoClient, n |-> 0, stages |-> <<>>]

\* A loop that goes on whatever it has received.
EndsLoopNever(r) == FALSE

\* options.py 177: `while len(package) != 0`, negated: the package ends the loop.
EndsLoop(r) == r.eof

\* options.py 173-203: package = client.recv(); a package that does not end
\* the loop is decoded and written to the speaker.
ClientRecv(c) ==
    /\ cli[c].pc = "recv"
    /\ \E r \in ClientRecvOutcomes(c) :
        /\ r.err = NoError
        /\ ~EndsLoop(r)
        /\ LET package == IF r.eof THEN EmptyPackage ELSE NextPacket(c) IN
            /\ NoError \in DecodeOutcomes(package)
            /\ cli' = [cli EXCEPT ![c].read = IF r.eof THEN @ ELSE @ + 1,
                                  ![c].played = Append(@, [packet |-> package,
                                                           stages |-> ClientStages(cli[c].modulation)])]
    /\ UNCHANGED <<srvVars, client_colors, main, worker, net, backlog, accepted, closed_io>>

\* options.py 177, 205-212: an empty package, or ConnectionResetError, ends the loop.
ClientRecvEnd(c) ==
    /\ cli[c].pc = "recv"
    /\ \E r \in ClientRecvOutcomes(c) :
        /\ r.err # NoError \/ EndsLoop(r)
        /\ cli' = [cli EXCEPT ![c].pc = "disconnect", ![c].err = r.err, ![c].speaker = FALSE]
    /\ UNCHANGED <<srvVars, client_colors, main, worker, net, backlog, accepted, closed_io>>

\* Ctrl+C in the receive loop: options.py 214-218.
ClientInterrupt(c) ==
    /\ cli[c].pc = "recv"
    /\ cli' = [cli EXCEPT ![c].pc = "disconnect", ![c].speaker = FALSE]
    /\ UNCHANGED <<srvVars, client_colors, main, worker, net, backlog, accepted, closed_io>>

\* Client.disconnect, called at options.py 221; connect() returns to the menu.
ClientDisconnect(c) ==
    /\ cli[c].pc = "disconnect"
    /\ net' = [net EXCEPT ![c].cli = IF cli[c].sock = "open" THEN "closed" ELSE @,
                          ![c].down = <<>>]
    /\ cli' = [cli EXCEPT ![c] = [NewClient EXCEPT !.pc = "menu", !.name = cli[c].name,
                                                   !.color = cli[c].color]]
    /\ UNCHANGED <<srvVars, client_colors, main, worker, backlog, accepted, closed_io>>

\* Client.disconnect (client.py 196-220) by a caller that holds a client
\* with no open session, never connected or disconnected before: is_open()
\* is false, no socket is touched, the fields are reset.
ClientDisconnectClosed(c) ==
    /\ cli[c].pc \in {"set_name", "menu"}
    /\ cli[c].sock # "open"
    /\ cli' = [cli EXCEPT ![c] = [NewClient EXCEPT !.pc = cli[c].pc, !.name = cli[c].name,
                                                   !.color = cli[c].color,
                                                   !.op = "disconnect"]]
    /\ UNCHANGED <<srvVars, client_colors, main, worker, net, backlog, accepted, closed_io>>

\* The call of the client that is running at a position of connect():
\* Client.connect up to client.py 194, then options.py 136 and 163-164.
RunningCall(pc) ==
    IF pc = "recv_color" THEN "connect"
    ELSE IF pc = "press_enter" THEN "send_str"
    ELSE IF pc = "recv_info" THEN "recv_str"
    ELSE "M"

\* An exception leaves the running call: the object keeps what the call had
\* stored, the `with` of options.py 167 releases the speaker.
Raises(c, e) ==
    cli' = [cli EXCEPT ![c].pc = "raised", ![c].err = e, ![c].op = RunningCall(cli[c].pc),
                       ![c].speaker = FALSE, ![c].tx = NoSend]

\* A recv or send of the handshake raises (ConnectionResetError,
\* BrokenPipeError), or a package cannot be decoded (ValueError): no except
\* clause on the way up names it.
ClientDies(c) ==
    /\ \/ /\ cli[c].pc \in {"recv_color", "recv_info"}
          /\ \E r \in ClientRecvOutcomes(c) : r.err # NoError /\ Raises(c, r.err)
       \/ /\ cli[c].pc \in {"recv_color", "press_enter"}
          /\ FALSE \in ClientSendOutcomes(c)
          /\ Raises(c, "BrokenPipeError")
       \/ /\ cli[c].pc = "recv"
          /\ \E r \in ClientRecvOutcomes(c) :
                /\ r.err = NoError
                /\ ~r.eof
                /\ "ValueError" \in DecodeOutcomes(NextPacket(c))
          /\ Raises(c, "ValueError")
    /\ UNCHANGED <<srvVars, client_colors, main, worker, net, backlog, accepted, closed_io>>

\* The exception reaches the top of the program (menu.py 73-84 and pyradio.py
\* catch EOFError and KeyboardInterrupt only): the process ends.
ClientExit(c) ==
    /\ cli[c].pc = "raised"
    /\ ProcessGone(c, cli[c].err)
    /\ UNCHANGED <<srvVars, client_colors, main, worker, backlog, accepted, closed_io>>

\* Ctrl+C outside the try of options.py 170-218: inside Client.connect after
\* the socket is stored (caught at options.py 119), at the Enter prompt or in
\* the two recv_str of options.py 163-164 (caught at menu.py 79-80, `pass`).
\* Nothing on the way calls client.disconnect(): the menu is shown again with
\* the session as it was.
ClientInterruptOutsideLoop(c) ==
    /\ cli[c].pc \in {"recv_color", "press_enter", "recv_info"}
    /\ cli' = [cli EXCEPT ![c].pc = "menu", ![c].err = "KeyboardInterrupt",
                          ![c].op = RunningCall(cli[c].pc), ![c].tx = NoSend]
    /\ UNCHANGED <<srvVars, client_colors, main, worker, net, backlog, accepted, closed_io>>

\* The client process is killed, or its host drops off the network, while
\* the socket is open.
ClientAbort(c) ==
    /\ cli[c].sock = "open"
    /\ cli[c].pc # "raised"
    /\ ProcessGone(c, NoError)
    /\ UNCHANGED <<srvVars, client_colors, main, worker, backlog, accepted, closed_io>>

\* -------------------------------------------------------------------- Next
\* What the menus and callers hand to set_name and Client.connect.
NameInputs == {"", "ana", "bob"}
ModulationInputs == {AM, NO_MOD, "fm"}
\* Blank, the server's host, a name that does not resolve, a host that never answers.
HostInputs == {"", "127.0.0.1", "no.such.host", "10.255.255.1"}

\* server_option while nothing fails and nobody presses Ctrl+C.
ServerRuns ==
    \/ \E port \in PortInputs : ServerConnect(port)
    \/ HelloAccept
    \/ HelloRecvName
    \/ HelloSendColor
    \/ HelloRecvModulation
    \/ StartThread

\* Ctrl+C and the shutdown, and the exceptions that end the main thread.
ServerStops ==
    \/ HelloFails
    \/ Interrupt
    \/ DisconnectClient
    \/ DisconnectIterationFails
    \/ DisconnectSocket
    \/ DisconnectReset
    \/ DisconnectSetSocket
    \/ ServerLeave

\* handle_client while the client stays and the server stays open.
WorkerRuns(c) ==
    \/ WorkerLookup(c)
    \/ WorkerRecvAck(c)
    \/ WorkerGetModulation(c)
    \/ WorkerInfo(c)
    \/ WorkerRecord(c)
    \/ WorkerSend(c)

\* handle_client once the client has gone or the server shuts down.
WorkerStops(c) ==
    \/ WorkerByeCheck(c)
    \/ WorkerByeRemove(c)
    \/ WorkerByeLog(c)
    \/ WorkerSendFails(c)
    \/ WorkerHandler(c)
    \/ WorkerServerClosed(c)
    \/ WorkerDies(c)

\* The client's way to the receive loop, the inputs drawn from the given sets.
ClientRuns(c, names, mods, hosts, ports) ==
    \/ \E name \in names : ClientSetName(c, name)
    \/ \E m \in mods, h \in hosts, p \in ports : ClientConnect(c, m, h, p)
    \/ ClientRecvColor(c)
    \/ ClientSendOK(c)
    \/ ClientRecvInfo(c)
    \/ ClientRecv(c)

\* The client's input errors.
ClientInputFails(c, names, mods, hosts, ports) ==
    \/ \E name \in names : ClientSetNameFails(c, name)
    \/ \E m \in mods, h \in hosts, p \in ports : ClientConnectFails(c, m, h, p)

\* The end of the client's connection.
ClientStops(c) ==
    \/ ClientRecvEnd(c)
    \/ ClientInterrupt(c)
    \/ ClientInterruptOutsideLoop(c)
    \/ ClientDisconnect(c)
    \/ ClientDies(c)
    \/ ClientExit(c)
    \/ ClientAbort(c)

\* One client process and the server, with every input and every failure.
Next ==
    \/ ServerRuns
    \/ \E port \in PortInputs, busy \in BOOLEAN : ServerConnectFails(port, busy)
    \/ ServerStops
    \/ \E c \in 1..MaxClients : WorkerRuns(c) \/ WorkerStops(c)
    \/ \E c \in 1..MaxClients :
        \/ ClientRuns(c, NameInputs, ModulationInputs, HostInputs, PortInputs)
        \/ ClientInputFails(c, NameInputs, ModulationInputs, HostInputs, PortInputs)
        \/ ClientStops(c)

Spec == Init /\ [][Next]_vars

\* What the clients of the concurrent runs type: a name and a modulation each.
PairNames == <<"ana", "bob", "eve">>
PairModulations == <<AM, NO_MOD, AM_SC>>

\* Concurrent client processes with accepted inputs, each of which may
\* leave; the server keeps running.
NextPair ==
    \/ ServerRuns
    \/ \E c \in 1..PairClients :
        \/ WorkerRuns(c)
        \/ WorkerByeCheck(c)
        \/ WorkerByeRemove(c)
        \/ WorkerByeLog(c)
        \/ WorkerSendFails(c)
        \/ WorkerHandler(c)
        \/ WorkerDies(c)
    \/ \E c \in 1..PairClients :
        \/ ClientRuns(c, {PairNames[c]}, {PairModulations[c]}, {""}, {<<>>})
        \/ ClientInterrupt(c)
        \/ ClientDisconnect(c)

SpecPair == Init /\ [][NextPair]_vars

\* The server from the port prompt to its last disconnect() and a client
\* from its menu to its disconnect(), with nothing failing on the way.
NextLeave ==
    \/ ServerRuns
    \/ InterruptAtPrompt
    \/ Interrupt
    \/ DisconnectClient
    \/ DisconnectSocket
    \/ DisconnectReset
    \/ DisconnectSetSocket
    \/ ServerLeave
    \/ \E c \in 1..MaxClients :
        \/ WorkerLookup(c)
        \/ WorkerRecvAck(c)
        \/ WorkerGetModulation(c)
        \/ WorkerInfo(c)
    \/ \E c \in 1..MaxClients :
        \/ ClientSetName(c, PairNames[c])
        \/ ClientConnect(c, PairModulations[c], "", <<>>)
        \/ ClientRecvColor(c)
        \/ ClientSendOK(c)
        \/ ClientRecvInfo(c)
        \/ ClientRecv(c)
        \/ ClientRecvEnd(c)
        \/ ClientInterrupt(c)
        \/ ClientDisconnect(c)
        \/ ClientDisconnectClosed(c)

SpecLeave == Init /\ [][NextLeave]_vars

\* A caller that holds a connected client and calls Client.send on packages
\* of every size up to MaxBytes, with and without `ensure`.
NextSend ==
    \/ ServerRuns
    \/ \E c \in 1..MaxClients :
        \/ \E name \in NameInputs : ClientSetName(c, name)
        \/ \E m \in modulations : ClientConnect(c, m, "", <<>>)
        \/ ClientRecvColor(c)
        \/ \E size \in 1..MaxBytes, ensure \in BOOLEAN : ClientSendCall(c, size, ensure)
        \/ \E k \in 1..MaxBytes : ClientSendWrite(c, k)
        \/ ClientSendOK(c)
    \/ \E c \in 1..MaxClients :
        \/ WorkerLookup(c)
        \/ WorkerRecvAck(c)
        \/ WorkerGetModulation(c)
        \/ WorkerInfo(c)
        \/ WorkerRecord(c)
        \/ \E size \in 1..MaxBytes, k \in 1..MaxBytes : WorkerSendBytes(c, size, k)

SpecSend == Init /\ [][NextSend]_vars

\* Clients that leave before their 'OK' while the server stays open: each
\* worker says bye to its client, and the holder of the handle then says bye
\* a second time.
NextBye ==
    \/ ServerRuns
    \/ \E c \in 1..PairClients :
        \/ WorkerLookup(c)
        \/ WorkerRecvAck(c)
        \/ WorkerByeCheck(c)
        \/ WorkerByeRemove(c)
        \/ WorkerByeLog(c)
        \/ ByeAgain(c)
    \/ \E c \in 1..PairClients :
        \/ ClientSetName(c, PairNames[c])
        \/ ClientConnect(c, PairModulations[c], "", <<>>)
        \/ ClientRecvColor(c)
        \/ ClientAbort(c)

SpecBye == Init /\ [][NextBye]_vars

\* Concurrent clients, some of which have gone, and an owner of the server
\* that broadcasts between two accepts, with every black list.
NextBroadcast ==
    \/ ServerRuns
    \/ \E black \in SUBSET (1..PairClients) : ServerBroadcast(black)
    \/ \E c \in 1..PairClients :
        \/ BroadcastSend(c)
        \/ BroadcastSendFails(c)
        \/ ClientSetName(c, PairNames[c])
        \/ ClientConnect(c, PairModulations[c], "", <<>>)
        \/ ClientRecvColor(c)
        \/ ClientAbort(c)

SpecBroadcast == Init /\ [][NextBroadcast]_vars

\* The hosts and ports the callers of Client.connect try: the default and
\* one that fails, of each kind of port.
ApiHosts == {"", "no.such.host"}
ApiPorts == {<<>>, <<"7", "0", "0", "0", "0">>, <<"a", "b", "c">>}

\* Callers of Server.connect, Client.set_name and Client.connect with every
\* kind of input, Client.connect also before a name was given.
NextApi ==
    \/ \E port \in PortInputs : ServerConnect(port)
    \/ \E port \in PortInputs, busy \in BOOLEAN : ServerConnectFails(port, busy)
    \/ \E c \in 1..MaxClients :
        \/ \E name \in NameInputs \cup {"None"} : ClientConstruct(c, name)
        \/ \E name \in NameInputs : ClientSetName(c, name)
        \/ ClientInputFails(c, NameInputs, ModulationInputs, ApiHosts, ApiPorts)
        \/ \E m \in ModulationInputs, h \in ApiHosts, p \in ApiPorts :
                ClientConnect(c, m, h, p) \/ ClientConnectUnnamed(c, m, h, p)

SpecApi == Init /\ [][NextApi]_vars

\* The handshake while nothing fails and nobody leaves: Client.connect and
\* the 'OK' of connect() against hello() and handle_client.
NextHandshake ==
    \/ ServerRuns
    \/ \E c \in 1..PairClients :
        \/ WorkerLookup(c)
        \/ WorkerRecvAck(c)
        \/ WorkerGetModulation(c)
        \/ WorkerInfo(c)
    \/ \E c \in 1..PairClients :
        \/ \E name \in {PairNames[c]} : ClientSetName(c, name)
        \/ \E m \in {PairModulations[c]}, h \in {""}, p \in PortInputs : ClientConnect(c, m, h, p)
        \/ ClientRecvColor(c)
        \/ ClientSendOK(c)
        \/ ClientRecvInfo(c)

\* Every thread and process that can take a step eventually takes one.
SpecHandshake == Init /\ [][NextHandshake]_vars /\ WF_vars(NextHandshake)

\* Client c may move once the client before it holds its color.
Turn(c) == IF c = 1 THEN TRUE ELSE cli[c - 1].pc = "press_enter"

\* MaxQueue clients connect one after another and wait at the prompt of
\* connect(); their workers wait for the 'OK'.
NextQueue ==
    \/ ServerRuns
    \/ \E c \in 1..MaxQueue : WorkerLookup(c)
    \/ \E c \in 1..MaxQueue :
        /\ Turn(c)
        /\ \/ \E name \in {"ana"} : ClientSetName(c, name)
           \/ \E m \in {AM}, h \in {""}, p \in {<<>>} : ClientConnect(c, m, h, p)
           \/ ClientRecvColor(c)

SpecQueue == Init /\ [][NextQueue]_vars

\* ------------------------------------------------------------------ claims
\* C1: in every reachable state no session has performed a socket operation
\* while it was closed: a helper invoked with is_open() false raises
\* SocketError before the socket is touched.
NoIOWhileClosed == closed_io = "none"

\* The registry holds a record for connection c.
Registered(c) == ~clients_none /\ c \in DOMAIN clients

\* The worker of c has received 'OK' and bye() has not removed the record yet.
HandshakeDone(c) ==
    /\ worker[c].pc \in {"get_modulation", "info", "record", "send", "handler", "bye", "bye_remove"}
    /\ Acknowledged(worker[c].ack)

\* C2: the registry holds a record for a connection exactly from the moment
\* its handshake (name, color, modulation, 'OK') has completed until bye or
\* shutdown; none while the handshake is in progress or after it failed.
RecordIffHandshakeDone ==
    \A c \in Client :
        /\ Registered(c) => HandshakeDone(c)
        /\ (HandshakeDone(c) /\ main.pc \in AcceptLoopPcs) => Registered(c)

\* C3: registry operations are mutually exclusive: no worker stands between
\* bye()'s check_client and its `del` with the registry already cleared by
\* shutdown, and shutdown's iteration never finds the registry resized.
RegistryMutualExclusion ==
    /\ \A c \in Client : ~(worker[c].pc = "bye_remove" /\ clients_none)
    /\ ~(main.pc = "disconnect_clients" /\ Cardinality(DOMAIN clients) # main.size)

\* C4: a client that closes or resets its connection ends only its own
\* session: the main thread is never ended by the exception of a receive
\* or send made for one client inside hello().
ClientLossEndsOnlyItsSession ==
    main.pc = "crashed" => main.err \notin {"ConnectionResetError", "ClientDisconnectedError", "OSError"}

\* C5: a failed socket operation reaches the caller of a session method as a
\* domain error only: no thread or process ever holds a raw OS-level error
\* raised out of Client.connect/recv/send or Server.hello/recv/send/bye.
NoRawErrorLeaks ==
    /\ main.err \notin OSLevelErrors
    /\ \A c \in Client : worker[c].err \notin OSLevelErrors /\ cli[c].err \notin OSLevelErrors

\* The statement that hello() receives the 'OK' itself: a worker would never
\* be found still waiting for it.
NoWorkerBeforeAck == \A c \in Client : worker[c].pc \notin {"lookup", "ack"}

\* What the server has written to c so far is at most the color.
OnlyColorSent(c) ==
    \A i \in 1..Len(net[c].down) :
        net[c].down[i].kind = "str" /\ \E k \in 1..Len(COLORS) : net[c].down[i].text = COLORS[k]

\* C6: hello() receives the name, sends the color, receives the modulation
\* and returns; the 'OK' is received by the worker started for the client,
\* which has sent nothing by then and sends the informational strings and
\* audio only after an 'OK'.
HandshakeOrder ==
    /\ main.pc = "hello_name" =>
            clients[main.client].name = Unset /\ net[main.client].down = <<>>
    /\ main.pc \in {"hello_color", "hello_modulation"} =>
            clients[main.client].name # Unset /\ clients[main.client].modulation = Unset
    /\ main.pc = "start_thread" =>
            clients[main.client].modulation # Unset /\ worker[main.client].pc = "none"
    /\ \A c \in Client :
        /\ worker[c].pc \in {"lookup", "ack"} => OnlyColorSent(c)
        /\ worker[c].pc \in {"info", "record", "send"} => worker[c].ack = "OK"

\* A worker runs, the client has its color and has not yet sent the 'OK'.
WorkerWaitsForAck ==
    \E c \in Client :
        /\ worker[c].pc = "ack"
        /\ cli[c].pc = "press_enter"
        /\ net[c].up = <<>>

\* The thread serving c is blocked in a receive: hello() for the name or the
\* modulation, or the worker for the 'OK'.
ServerWaits(c) ==
    /\ \/ main.client = c /\ main.pc \in {"hello_name", "hello_modulation"}
       \/ worker[c].pc = "ack"
    /\ ServerRecvOutcomes(c) = {}

\* Client c is blocked in a receive: Client.connect for the color, or
\* connect() for an informational string.
ClientWaits(c) ==
    /\ cli[c].pc \in {"recv_color", "recv_info"}
    /\ ClientRecvOutcomes(c) = {}

\* Both sides are through: the client has read its informational strings,
\* the worker has written them.
HandshakeComplete(c) == cli[c].pc = "recv" /\ worker[c].pc = "record"

\* The record of c holds what the client sent, the client what hello() assigned.
ConsistentView(c) ==
    /\ c \in DOMAIN clients
    /\ clients[c].name = cli[c].name
    /\ clients[c].modulation = cli[c].modulation
    /\ clients[c].color = cli[c].color
    /\ worker[c].modulation = cli[c].modulation

\* C7: with every send delivered as one message and no failure, the
\* handshake of Client.connect and the 'OK' against hello() and
\* handle_client never has both sides waiting to receive, always completes,
\* and ends with the record holding the client's name and modulation and the
\* client holding the color of its record.
HandshakeCompletes ==
    /\ [](\A c \in Client : ~(ServerWaits(c) /\ ClientWaits(c)))
    /\ [](\A c \in Client : HandshakeComplete(c) => ConsistentView(c))
    /\ \A c \in 1..PairClients : (cli[c].pc = "recv_color") ~> HandshakeComplete(c)

\* Every client of the run is through its handshake, each with its own name.
AllHandshakesComplete ==
    \A c \in 1..PairClients :
        HandshakeComplete(c) /\ clients[c].name = PairNames[c] /\ cli[c].color # "None"

\* C8: the k-th connection a Server accepts gets palette entry (k-1) mod 6
\* of [RED, GREEN, YELLOW, BLUE, MAGENTA, CYAN], in its record and in the
\* color its client receives; the 7th gets the color of the 1st.
RoundRobinColors ==
    \A k \in 1..Len(accepted) :
        LET c == accepted[k]
            entry == <<RED, GREEN, YELLOW, BLUE, MAGENTA, CYAN>>[((k - 1) % 6) + 1]
        IN  /\ c \in DOMAIN clients => clients[c].color = entry
            /\ cli[c].color # "None" => cli[c].color = entry
            /\ k > 6 /\ cli[c].color # "None" => cli[c].color = cli[accepted[k - 6]].color

\* The 7th client holds its color, the color of the 1st.
SeventhHasColorOfFirst ==
    /\ Len(accepted) >= 7
    /\ cli[accepted[7]].color = RED
    /\ cli[accepted[1]].color = RED
    /\ cli[accepted[6]].color = CYAN

\* C9: once hello() has stored a modulation in a client's record, no step of
\* any thread changes it while the record exists; get_modulation returns
\* that value every time.
ModulationImmutable ==
    [][\A c \in Client :
        (c \in DOMAIN clients /\ clients[c].modulation # Unset /\ c \in DOMAIN clients')
            => clients'[c].modulation = clients[c].modulation]_vars

\* A worker has read its client's modulation while hello() is busy with the
\* handshake of another client.
ModulationReadDuringOtherHandshake ==
    \E c \in DOMAIN clients :
        /\ worker[c].pc \in {"info", "record", "send"}
        /\ worker[c].modulation = clients[c].modulation
        /\ main.client \notin {c, NoClient}
        /\ main.pc = "start_thread"

\* The audio packets in a sequence of packets.
PcmOf(packets) == SelectSeq(packets, LAMBDA p : p.kind = "pcm")

PlaysExactlyTheStream ==
    \A c \in Client :
        cli[c].modulation = NO_MOD =>
            /\ \A i \in 1..Len(cli[c].played) :
                /\ cli[c].played[i].packet = PcmPacket(c, i, WorkerStages(NO_MOD))
                /\ cli[c].played[i].stages = <<"output">>
            /\ ~(cli[c].pc = "raised" /\ cli[c].op = "M")

\* C13: a worker whose send failed with ClientDisconnectedError while the
\* server is open goes on to bye(), which removes the client's record: in its
\* except block it does not end with an error nothing handles, and the step
\* leaves every record as it is.
SendFailureLeadsToBye ==
    [][\A c \in Client :
        (worker[c].pc = "handler" /\ is_open /\ is_open') =>
            /\ worker'[c].pc \in {"handler", "bye"}
            /\ worker'[c].pc = "bye" => clients' = clients]_vars

\* The positions of the main thread from Ctrl+C to the end of server_option.
ShutdownPcs ==
    {"disconnect_clients", "disconnect_reset", "disconnect_set_socket", "leave", "done"}

\* C12: once Ctrl+C has stopped the accept loop, no worker ends with an error
\* nothing handles, whatever step it was at, the loop over the client sockets
\* runs to its end, and the server ends closed with registry and log cleared.
ShutdownIsClean ==
    [][main.pc \in ShutdownPcs =>
        /\ \A c \in Client : worker'[c].pc = "dead" => worker[c].pc = "dead"
        /\ main'.pc \in ShutdownPcs
        /\ main'.pc = "done" => (socket' = "None" /\ clients_none' /\ logs' = "None")]_vars

\* C14: when the handling of a Ctrl+C has brought the client back to its
\* menu, its socket is closed, the session is closed and the speaker is
\* released, wherever after the opening of the socket the Ctrl+C came.
InterruptClosesSession ==
    \A c \in Client :
        cli[c].pc = "menu" => (cli[c].sock # "open" /\ net[c].cli # "open" /\ ~cli[c].speaker)

\* C15: a Client.send with ensure set returns only when the whole package
\* has been written; without ensure it makes exactly one write on the
\* socket, whatever part of the package that write took.
EnsureWritesAll ==
    \A c \in Client :
        cli[c].tx.state = "returned" =>
            /\ cli[c].tx.ensure => cli[c].tx.written = cli[c].tx.size
            /\ ~cli[c].tx.ensure => cli[c].tx.writes = 1

\* The connection of a client is broken: its peer has gone, or the server's
\* end of it is closed.
Broken(c) == net[c].cli = "closed" \/ net[c].srv = "closed"

\* C16: a Server.send to a registered client whose connection is broken
\* either is still taken by the socket or fails with ClientDisconnectedError
\* and no other error, in a worker and in hello(), and leaves the registry
\* as it was.
BrokenSendRaisesClientDisconnected ==
    [][/\ \A c \in Client :
            (/\ worker[c].pc = "send"
             /\ check_client(c) = NoError
             /\ Broken(c)
             /\ worker'[c] # worker[c]
             /\ worker'[c].pc # "killed") =>
                /\ \/ worker'[c].pc = "record"
                   \/ worker'[c].pc = "handler" /\ worker'[c].err = "ClientDisconnectedError"
                /\ clients' = clients
       /\ (main.pc = "hello_color" /\ main'.pc = "crashed") =>
            (main'.err = "ClientDisconnectedError" /\ clients' = clients)]_vars

\* A worker's send to a registered client that has gone has failed.
SendToGoneClientFailed ==
    \E c \in Client :
        /\ worker[c].pc = "handler"
        /\ worker[c].err = "ClientDisconnectedError"
        /\ check_client(c) = NoError
        /\ net[c].cli = "closed"

\* C17: a Server.connect that fails reports a port that is not a number
\* ("abc") as InvalidPortError, a number above 65535 (70000) as
\* PortOutOfRangeError, and a port in range that another listener holds as
\* PortAlreadyUsedError.
BindErrorMapping ==
    (main.pc = "bind" /\ main.err # NoError) =>
        /\ main.port # NoArgs
        /\ main.port = <<"a", "b", "c">> => main.err = "InvalidPortError"
        /\ main.port = <<"7", "0", "0", "0", "0">> => main.err = "PortOutOfRangeError"
        /\ ~(main.port = <<>> \/ IsInt(main.port)) => main.err = "InvalidPortError"
        /\ (IsInt(main.port) /\ IntOf(main.port) > PortLimit) => main.err = "PortOutOfRangeError"
        /\ ((main.port = <<>> \/ (IsInt(main.port) /\ IntOf(main.port) <= PortLimit)) /\ main.busy) =>
                main.err = "PortAlreadyUsedError"
        /\ main.err \in {"InvalidPortError", "PortOutOfRangeError", "PortAlreadyUsedError"}

\* Server.connect has been given 70000 while the port is held by another
\* listener, and has reported the range.
OutOfRangePortRefused ==
    /\ main.pc = "bind"
    /\ main.port = <<"7", "0", "0", "0", "0">>
    /\ main.busy
    /\ main.err = "PortOutOfRangeError"

\* A Client.connect has raised for the arguments kept in `args`.
ConnectFailed(c) ==
    cli[c].op = "connect" /\ cli[c].args # NoArgs /\ cli[c].err # NoError

\* The errors of the two checks Client.connect makes before it creates a socket.
PreconditionErrors == {"UndefinedNameError", "InvalidModulationTypeError"}

\* C19: Client.connect on a client without a name fails with
\* UndefinedNameError whatever the modulation; with a name and a modulation
\* other than am, am-sc and none it fails with InvalidModulationTypeError;
\* either way no connection is attempted and the client stays closed.
PreconditionsChecked ==
    \A c \in Client :
        ConnectFailed(c) =>
            /\ cli[c].name = "None" => cli[c].err = "UndefinedNameError"
            /\ (cli[c].name # "None" /\ cli[c].args[1] \notin {"am", "am-sc", "none"}) =>
                    cli[c].err = "InvalidModulationTypeError"
            /\ cli[c].err \in PreconditionErrors =>
                    /\ cli[c].sock = "None"
                    /\ net[c] = NoConnection
                    /\ \A i \in 1..Len(backlog) : backlog[i] # c

\* Client.connect was called without a name and with a modulation that does
\* not exist, and reported the name.
UnnamedWithBadModulation ==
    \E c \in Client :
        /\ ConnectFailed(c)
        /\ cli[c].name = "None"
        /\ cli[c].args[1] = "fm"
        /\ cli[c].err = "UndefinedNameError"

\* C18: a Server.connect, a Client.connect or a Client.set_name that fails
\* leaves the session as it was before the call: the step in which a call
\* raises for its arguments changes neither socket, registry and log of the
\* server nor socket, name and modulation of the client, and a client whose
\* Client.connect has raised is closed, without modulation, as it was when
\* the call began.
FailedCallLeavesSession ==
    /\ [](\A c \in Client :
            (cli[c].op = "connect" /\ cli[c].err \notin {NoError, "KeyboardInterrupt"}) =>
                (cli[c].sock = "None" /\ cli[c].modulation = "None"))
    /\ [][/\ (main.pc = "bind" /\ main'.pc = "bind") =>
                UNCHANGED <<socket, clients, clients_none, logs>>
          /\ \A c \in Client :
                (/\ cli'[c].args # NoArgs
                 /\ <<cli'[c].err, cli'[c].op, cli'[c].args>> # <<cli[c].err, cli[c].op, cli[c].args>>) =>
                    /\ cli'[c].name = cli[c].name
                    /\ cli'[c].sock = cli[c].sock
                    /\ cli'[c].modulation = cli[c].modulation
                    /\ net'[c] = net[c]]_vars

\* The errors Client.connect raises by design for a connection attempt that fails.
AttemptErrors ==
    {"ConnectionTimeoutError", "ConnectionRefusedError", "UnknownHostError", "InvalidPortError"}

\* C20: a Client.connect whose connection attempt fails, whatever host and
\* port it was given, reports it as ConnectionTimeoutError,
\* ConnectionRefusedError, UnknownHostError or InvalidPortError.
AttemptFailuresReported ==
    \A c \in Client :
        (ConnectFailed(c) /\ cli[c].err \notin PreconditionErrors) => cli[c].err \in AttemptErrors

\* C21: a Client.set_name that fails was given the empty name, fails with
\* InvalidNameError and leaves the name as it was; a name that changes is
\* the name given, which is not empty, and the call has not failed.
SetNameContract ==
    [][\A c \in Client :
        /\ (/\ cli'[c].op = "set_name"
            /\ cli'[c].err # NoError
            /\ <<cli'[c].err, cli'[c].op, cli'[c].args>> # <<cli[c].err, cli[c].op, cli[c].args>>) =>
                /\ cli'[c].err = "InvalidNameError"
                /\ cli'[c].args = <<"">>
                /\ cli'[c].name = cli[c].name
        /\ (cli'[c].name # cli[c].name) =>
                /\ cli'[c].name \in NameInputs \ {""}
                /\ cli'[c].err = NoError]_vars

\* A client that had a name was given the empty one and has kept its name.
EmptyNameRefused ==
    \E c \in Client :
        /\ cli[c].op = "set_name"
        /\ cli[c].err = "InvalidNameError"
        /\ cli[c].name = "ana"

\* C22: on an open server a get_modulation for a connection without a
\* record (bye has removed it) fails with InvalidClientError, and for a
\* registered connection it returns the modulation stored in the record;
\* either way the registry stays as it is.
LookupContract ==
    [][\A c \in Client :
        (/\ worker[c].pc = "get_modulation"
         /\ is_open
         /\ ~clients_none
         /\ worker'[c] # worker[c]
         /\ worker'[c].pc # "killed") =>
            /\ clients' = clients
            /\ IF c \in DOMAIN clients
               THEN worker'[c].pc = "info" /\ worker'[c].modulation = clients[c].modulation
               ELSE worker'[c].pc = "dead" /\ worker'[c].err = "InvalidClientError"]_vars

\* A worker has asked an open server for a client bye() had removed.
UnknownClientRefused ==
    \E c \in Client :
        /\ worker[c].pc = "dead"
        /\ worker[c].err = "InvalidClientError"
        /\ is_open
        /\ ~clients_none
        /\ c \notin DOMAIN clients

\* C23: the bye() of a registered client closes that client's socket and
\* removes that client's record and no other: every other record and
\* connection, the listening socket and the color sequence stay as they
\* are; a second bye() for the client fails with InvalidClientError and
\* changes nothing.
ByeFrame ==
    [][\A c \in Client :
        /\ (worker[c].pc = "bye_remove" /\ worker'[c].pc = "bye_log") =>
                /\ c \in DOMAIN clients
                /\ DOMAIN clients' = DOMAIN clients \ {c}
                /\ net'[c].srv = "closed"
                /\ \A k \in Client \ {c} :
                        /\ net'[k] = net[k]
                        /\ k \in DOMAIN clients => clients'[k] = clients[k]
                /\ socket' = socket
                /\ client_colors' = client_colors
        /\ (worker[c].pc = "get_modulation" /\ c \notin DOMAIN clients /\ worker'[c].pc = "dead") =>
                /\ worker'[c].err = "InvalidClientError"
                /\ UNCHANGED <<socket, clients, clients_none, logs, client_colors, net>>]_vars

\* One client was removed by bye() and its second bye() refused while the
\* record and the connection of another client are in place.
ByeRemovedOneOfTwo ==
    \E c, k \in Client :
        /\ c # k
        /\ worker[c].pc = "dead"
        /\ worker[c].err = "InvalidClientError"
        /\ c \notin DOMAIN clients
        /\ net[c].srv = "closed"
        /\ k \in DOMAIN clients
        /\ net[k].srv = "open"

\* C24: a Server.disconnect on an open server runs from its loop over the
\* client sockets to its end: it closes the listening socket only when every
\* registered client socket is closed, clears registry and log after that,
\* and when it has returned the server is closed and no connection of the
\* server is open.
DisconnectClosesAll ==
    [][/\ main.pc = "disconnect_clients" => main'.pc \in {"disconnect_clients", "disconnect_reset"}
       /\ (socket = "listening" /\ socket' = "closed") =>
            \A c \in DOMAIN clients : net[c].srv = "closed"
       /\ (~clients_none /\ clients_none') => socket = "closed"
       /\ main'.pc = "leave" =>
            /\ socket' = "None" /\ clients_none' /\ logs' = "None"
            /\ \A c \in Client : net'[c].srv \notin {"open", "queued"}]_vars

\* C25: no empty package is ever decoded or written to the speaker: the
\* client stays in its receive loop only by playing a package that holds
\* data, and once the loop has ended its next step closes the socket.
ZeroLengthEndsLoop ==
    [][\A c \in Client :
        /\ \A i \in 1..Len(cli'[c].played) : cli'[c].played[i].packet.kind # "empty"
        /\ (cli[c].pc = "recv" /\ cli'[c].pc = "recv" /\ cli'[c] # cli[c]) =>
                /\ cli[c].read < Len(net[c].down)
                /\ cli'[c].played = Append(cli[c].played, [packet |-> net[c].down[cli[c].read + 1],
                                                            stages |-> ClientStages(cli[c].modulation)])
        /\ (cli[c].pc = "disconnect" /\ cli'[c] # cli[c]) =>
                (cli'[c].sock = "None" /\ net'[c].cli # "open")]_vars

\* The server has closed the connection, the client has played what was
\* sent, read the end of the stream and left its loop.
LoopEndedAtEndOfStream ==
    \E c \in Client :
        /\ cli[c].pc = "disconnect"
        /\ cli[c].err = NoError
        /\ net[c].srv = "closed"
        /\ cli[c].read = Len(net[c].down)
        /\ Len(cli[c].played) > 0

\* C26: a worker thread is started for a client only by the accept loop,
\* once, for the handle hello() has just returned, and in the same step the
\* loop is back at hello(); whatever the workers are doing, hello() can
\* accept a connection that waits in the backlog.
OneWorkerPerClient ==
    [][/\ \A c \in Client :
            (worker'[c].pc = "lookup" /\ worker[c].pc # "lookup") =>
                /\ worker[c].pc = "none"
                /\ main.pc = "start_thread"
                /\ main.client = c
                /\ \A k \in Client \ {c} : worker'[k] = worker[k]
       /\ (main.pc = "start_thread" /\ main' # main) =>
                /\ main'.pc = "hello"
                /\ worker'[main.client].pc = "lookup"
       /\ (main.pc = "hello" /\ backlog # <<>>) => ENABLED HelloAccept]_vars

\* A connection is accepted and registered while the worker of another
\* client is at the microphone or in a send.
AcceptedWhileWorkerStreams ==
    \E c, k \in Client :
        /\ c # k
        /\ worker[c].pc \in {"record", "send"}
        /\ worker[c].seq > 0
        /\ main.pc = "hello_name"
        /\ main.client = k
        /\ k \in DOMAIN clients

\* C27: a broadcast that has ended, by returning or by raising, has called
\* send for every registered client outside the black list and for no
\* client in it: a send that fails does not keep the package from the
\* recipients that come after it.
BroadcastReachesAll ==
    main.bc.state \in {"returned", "raised"} =>
        /\ main.bc.attempted = main.bc.targets
        /\ main.bc.attempted \cap main.bc.black = {}

\* ------------------------------------------- the Modulator (modulator.py)
\* audio/settings.py 10, np.dtype(np.int16).itemsize, socket/settings.py 28.
CHANNELS == 2
ItemSize == 2
PACKAGE_SIZE == 1024 * 4

\* A block size that leaves the sample width out of the division.
ChunkSizeOfFrames(package_size) == package_size \div CHANNELS

\* audio/settings.py 13: PACKAGE_SIZE // CHANNELS // itemsize, for a given
\* package size.
ChunkSizeOf(package_size) == (package_size \div CHANNELS) \div ItemSize

CHUNK_SIZE == ChunkSizeOf(PACKAGE_SIZE)

\* The int16 buffers of the runs, of values at the low end of the range,
\* negative, and with two different bytes.
SampleSeqs == UNION {[1..n -> {-(2^15), -1, 256}] : n \in 1..MaxSamples}

\* An integer stored in 16 bits, two's complement.
Wrap16(v) == ((v + 2^15) % 2^16) - 2^15

\* astype(np.int16) of the float64 num / den: the fraction is dropped; for a
\* value outside the int16 range the conversion is undefined in C, and the
\* builds wrap or saturate.
Cast16(mode, num, den) ==
    LET v == IF num >= 0 THEN num \div den ELSE -((-num) \div den) IN
    IF mode = "wrap" THEN Wrap16(v)
    ELSE IF v < -(2^15) THEN -(2^15)
    ELSE IF v > 2^15 - 1 THEN 2^15 - 1
    ELSE v

\* ndarray.tobytes() of an int16 array, low byte first.
RECURSIVE tobytes(_)
tobytes(samples) ==
    IF samples = <<>> THEN <<>>
    ELSE LET u == samples[1] % 2^16 IN
         <<u % 256, u \div 256>> \o tobytes(Tail(samples))

\* A buffer read as unsigned 16-bit values.
frombufferUnsigned(bytes) ==
    [i \in 1..(Len(bytes) \div ItemSize) |-> bytes[2 * i - 1] + 256 * bytes[2 * i]]

\* np.frombuffer(signal, np.int16), low byte first.
frombuffer(bytes) ==
    [i \in 1..(Len(bytes) \div ItemSize) |->
        LET u == bytes[2 * i - 1] + 256 * bytes[2 * i] IN
        IF u >= 2^15 THEN u - 2^16 ELSE u]

\* Modulator.__am_carrier: t = np.arange(len(signal)),
\* np.cos(2 * np.pi * t * AM_CARRIER_FREQ).  t is the sample index and
\* AM_CARRIER_FREQ is 3e3, so every value is the cosine of a whole number
\* of turns: 1, one value per sample.
am_carrier(signal) == [i \in 1..Len(signal) |-> 1]

\* The sum of a[i] * v[k - i + 1] over the i it is defined for.
RECURSIVE ConvolveTerm(_, _, _, _)
ConvolveTerm(a, v, k, i) ==
    IF i = 0 THEN 0
    ELSE (IF (k - i + 1) \in 1..Len(v) THEN a[i] * v[k - i + 1] ELSE 0)
         + ConvolveTerm(a, v, k, i - 1)

\* np.convolve(a, v, 'full')
convolve_full(a, v) ==
    [k \in 1..(Len(a) + Len(v) - 1) |-> ConvolveTerm(a, v, k, Len(a))]

\* np.convolve(a, v, 'same'): the middle max(M, N) values of the full one.
convolve_same(a, v) ==
    LET full == convolve_full(a, v)
        n == IF Len(a) <= Len(v) THEN Len(a) ELSE Len(v)
        start == (n - 1) - (n \div 2)
    IN [i \in 1..Max(Len(a), Len(v)) |-> full[i + start]]

\* firwin(numtaps=len(signal), ...): numtaps coefficients of unit gain at 0 Hz.
\* The coefficients are real numbers; the model takes numtaps equal ones,
\* each standing for 1 / numtaps.
firwin(numtaps) == [i \in 1..numtaps |-> 1]

\* The Modulator the constructor builds from an array: __set_modulation, then
\* __set_signal with signal.flatten().  A buffer is kept as the numerators
\* of its samples over the common denominator den.
ModulatorOf(modulation, x, block, size) ==
    [modulation |-> modulation, dtype |-> "int16", signal |-> x, den |-> 1,
     input |-> x, block |-> block, size |-> size, ops |-> <<>>, package |-> <<>>]

\* What the runs build a Modulator from: an int16 array of any length, or
\* the block microphone.read(CHUNK_SIZE)[0] of CHUNK_SIZE frames of CHANNELS
\* samples, for each package size.
SignalInputs ==
    {ModulatorOf(m, x, 0, 0) : m \in modulations, x \in SampleSeqs}
    \cup UNION {{ModulatorOf(m, x, ChunkSizeOf(s), s) :
                    m \in modulations,
                    x \in {y \in SampleSeqs : Len(y) = ChunkSizeOf(s) * CHANNELS}} :
                s \in {p \in 1..MaxPackage : ChunkSizeOf(p) >= 1}}

InitSignal ==
    /\ socket = "None"
    /\ clients = <<>>
    /\ clients_none = TRUE
    /\ logs = "None"
    /\ client_colors = 0
    /\ main = [pc |-> "bind", client |-> NoClient, err |-> NoError, port |-> NoArgs,
               busy |-> FALSE, seen |-> {}, size |-> 0, bc |-> NoBroadcast]
    /\ \E m \in SignalInputs \cup {NoModulator} :
        worker = [c \in Client |-> IF c = 1 THEN [IdleWorker EXCEPT !.pc = "record",
                                                                    !.recorded = m]
                                   ELSE IdleWorker]
    /\ cli = [c \in Client |-> NewClient]
    /\ net = [c \in Client |-> NoConnection]
    /\ backlog = <<>>
    /\ accepted = <<>>
    /\ closed_io = "none"

\* A constructor that looks at the signal before the modulation.
ModulatorErrorSignalFirst(modulation, kind) ==
    IF kind \notin {"bytes", "ndarray"} THEN "InvalidSignalTypeError"
    ELSE IF modulation \notin modulations THEN "InvalidModulationTypeError"
    ELSE NoError

\* What Modulator.__init__ raises (modulator.py 45-46): __set_modulation
\* checks the modulation against the list, then __set_signal checks
\* isinstance(signal, (bytes, np.ndarray)).
ModulatorError(modulation, kind) ==
    IF modulation \notin modulations THEN "InvalidModulationTypeError"
    ELSE IF kind \notin {"bytes", "ndarray"} THEN "InvalidSignalTypeError"
    ELSE NoError

\* M(modulation, signal) for an array, the bytes of an array or a list of
\* the samples x, by a thread that holds no Modulator yet.  A constructor
\* that raises leaves its arguments and the error with the thread.
Construct(c, modulation, kind, x) ==
    /\ worker[c].pc = "record"
    /\ worker[c].err = NoError
    /\ worker[c].recorded = NoModulator
    /\ LET e == ModulatorError(modulation, kind) IN
        worker' = [worker EXCEPT
            ![c].err = e,
            ![c].recorded =
                IF e # NoError
                THEN [NoModulator EXCEPT !.modulation = modulation, !.dtype = kind,
                                         !.ops = <<"__init__">>]
                ELSE ModulatorOf(modulation,
                                 IF kind = "bytes" THEN frombuffer(tobytes(x)) ELSE x, 0, 0)]
    /\ UNCHANGED <<srvVars, client_colors, main, cli, net, backlog, accepted, closed_io>>

\* Thread c applies method op to its Modulator, which becomes m.
Applied(c, op, m) ==
    /\ worker[c].err = NoError
    /\ worker[c].recorded.modulation \in modulations
    /\ Len(worker[c].recorded.ops) < MaxOps
    /\ worker' = [worker EXCEPT ![c].recorded = [m EXCEPT !.ops = Append(@, op)]]
    /\ UNCHANGED <<srvVars, client_colors, main, cli, net, backlog, accepted, closed_io>>

\* Modulator.modulate (modulator.py 111-144)
Modulate(c) ==
    /\ LET m == worker[c].recorded
           carrier == am_carrier(m.signal)
       IN Applied(c, "modulate",
            IF m.modulation = AM
            THEN [m EXCEPT !.signal = [i \in 1..Len(m.signal) |->
                                          m.signal[i] * carrier[i] + carrier[i] * m.den],
                           !.den = 2 * m.den, !.dtype = "float64"]
            ELSE IF m.modulation = AM_SC
            THEN [m EXCEPT !.signal = [i \in 1..Len(m.signal) |-> m.signal[i] * carrier[i]],
                           !.dtype = "float64"]
            ELSE m)

\* Modulator.demodulate (modulator.py 48-76); np.abs of an int16 array stays
\* in 16 bits.
Demodulate(c) ==
    /\ LET m == worker[c].recorded
           carrier == am_carrier(m.signal)
       IN Applied(c, "demodulate",
            IF m.modulation = AM
            THEN [m EXCEPT !.signal = [i \in 1..Len(m.signal) |->
                                          LET a == IF m.signal[i] < 0 THEN -m.signal[i]
                                                   ELSE m.signal[i]
                                          IN IF m.dtype = "int16" THEN Wrap16(a) ELSE a]]
            ELSE IF m.modulation = AM_SC
            THEN [m EXCEPT !.signal = [i \in 1..Len(m.signal) |-> m.signal[i] * carrier[i]],
                           !.dtype = "float64"]
            ELSE m)

\* Modulator.lowpass (modulator.py 93-109, 206-238)
Lowpass(c) ==
    /\ LET m == worker[c].recorded
           lowpass == firwin(Len(m.signal))
       IN Applied(c, "lowpass",
            [m EXCEPT !.signal = convolve_same(m.signal, lowpass),
                      !.den = m.den * Len(lowpass), !.dtype = "float64"])

\* Modulator.encode (modulator.py 78-91): self.__signal.astype(np.int16).tobytes()
Encode(c) ==
    /\ LET m == worker[c].recorded IN
       \E mode \in {"wrap", "saturate"} :
        Applied(c, "encode",
            [m EXCEPT !.package =
                tobytes([i \in 1..Len(m.signal) |-> Cast16(mode, m.signal[i], m.den)])])

\* M(modulation, package) on the bytes of a package (modulator.py 258-290):
\* np.frombuffer(signal, np.int16), then flatten().
SetSignal(c) ==
    /\ worker[c].recorded.package # <<>>
    /\ LET m == worker[c].recorded IN
       Applied(c, "set_signal",
            [m EXCEPT !.signal = frombuffer(m.package), !.den = 1, !.dtype = "int16"])

NextSignal ==
    \/ \E c \in 1..MaxClients, modulation \in modulations \cup {"fm"},
          kind \in {"bytes", "ndarray", "list"}, x \in {y \in SampleSeqs : Len(y) = 1} :
            Construct(c, modulation, kind, x)
    \/ \E c \in 1..MaxClients : Modulate(c)
    \/ \E c \in 1..MaxClients : Demodulate(c)
    \/ \E c \in 1..MaxClients : Lowpass(c)
    \/ \E c \in 1..MaxClients : Encode(c)
    \/ \E c \in 1..MaxClients : SetSignal(c)

SpecSignal == InitSignal /\ [][NextSignal]_vars

\* ------------------------------------------------- claims on the Modulator
\* The method the step applies to the Modulator of thread c, "" if none.
AppliedOp(c) ==
    IF worker'[c].recorded.ops = worker[c].recorded.ops THEN ""
    ELSE worker'[c].recorded.ops[Len(worker'[c].recorded.ops)]

\* C28: modulate, demodulate and lowpass leave the number of samples of the
\* buffer as it was, for every buffer of one sample or more and every
\* modulation; encode returns two bytes for each sample of the buffer.
LengthPreserved ==
    [][\A c \in Client :
        /\ AppliedOp(c) \in {"modulate", "demodulate", "lowpass", "encode"} =>
              Len(worker'[c].recorded.signal) = Len(worker[c].recorded.signal)
        /\ AppliedOp(c) = "encode" =>
              Len(worker'[c].recorded.package) = 2 * Len(worker[c].recorded.signal)]_vars

\* A buffer of several samples that went through lowpass, modulate and encode.
FilteredChunkEncoded ==
    \E c \in Client :
        /\ worker[c].recorded.modulation = AM
        /\ worker[c].recorded.ops = <<"lowpass", "modulate", "encode">>
        /\ Len(worker[c].recorded.input) = MaxSamples
        /\ Len(worker[c].recorded.signal) = MaxSamples
        /\ Len(worker[c].recorded.package) = 2 * MaxSamples

\* C29: with modulation "none", a Modulator built from the bytes encode
\* returned for an int16 buffer holds that buffer again, and modulate and
\* demodulate leave the buffer as it is: after any sequence of encode,
\* construction from the encoded bytes, modulate and demodulate the buffer
\* equals the original samples.
RoundTripNone ==
    \A c \in Client :
        LET m == worker[c].recorded IN
        (/\ m.modulation = NO_MOD
         /\ \A i \in 1..Len(m.ops) :
                m.ops[i] \in {"encode", "set_signal", "modulate", "demodulate"})
        => /\ m.signal = m.input
           /\ m.dtype = "int16"
           /\ m.den = 1

\* A buffer with a negative and a positive sample, encoded, decoded and
\* then demodulated with modulation "none".
DecodedNoneBuffer ==
    \E c \in Client :
        LET m == worker[c].recorded IN
        /\ m.modulation = NO_MOD
        /\ m.ops = <<"encode", "set_signal", "demodulate">>
        /\ Len(m.input) >= 2
        /\ m.input[1] = -(2^15)
        /\ m.input[2] = 256
        /\ m.signal = m.input

\* C30: the block size is derived so that a block of CHUNK_SIZE frames of
\* CHANNELS samples of 2 bytes is no longer than PACKAGE_SIZE, and the
\* package a worker gets from encode at the end of its stages for a block
\* read from the capture device is CHUNK_SIZE * CHANNELS * 2 bytes long for
\* every modulation, which is no more than one receive of PACKAGE_SIZE bytes
\* takes.
PacketFitsPackage ==
    /\ CHUNK_SIZE * CHANNELS * 2 <= PACKAGE_SIZE
    /\ \A c \in Client :
        LET m == worker[c].recorded IN
        (m.block > 0 /\ m.ops = WorkerStages(m.modulation)) =>
            /\ m.block = ChunkSizeOf(m.size)
            /\ Len(m.package) = m.block * CHANNELS * 2
            /\ Len(m.package) <= m.size

\* A block of two frames or more, filtered, modulated and encoded by the worker.
BlockPacketEncoded ==
    \E c \in Client :
        LET m == worker[c].recorded IN
        /\ m.block >= 2
        /\ m.modulation = AM_SC
        /\ m.ops = WorkerStages(m.modulation)
        /\ Len(m.package) = m.block * CHANNELS * ItemSize

\* C31: with the carrier c of one value per sample index, modulate turns
\* every sample s into (s * c + c) / 2 for "am", into s * c for "am-sc" and
\* leaves it for "none"; demodulate turns every sample into s * c for
\* "am-sc" and into its absolute value for "am".  Samples are compared as
\* fractions: numerator over the denominator of their buffer.
ModulationFormulas ==
    [][\A c \in Client :
        LET m == worker[c].recorded
            n == worker'[c].recorded
            carrier == am_carrier(m.signal)
        IN  AppliedOp(c) \in {"modulate", "demodulate"} =>
            /\ Len(n.signal) = Len(m.signal)
            /\ \A i \in 1..Len(m.signal) :
                LET s == m.signal[i]
                    out == n.signal[i]
                IN  /\ (AppliedOp(c) = "modulate" /\ m.modulation = AM) =>
                            out * 2 * m.den = (s * carrier[i] + carrier[i] * m.den) * n.den
                    /\ (AppliedOp(c) = "modulate" /\ m.modulation = NO_MOD) =>
                            out * m.den = s * n.den
                    /\ m.modulation = AM_SC =>
                            out * m.den = s * carrier[i] * n.den
                    /\ (AppliedOp(c) = "demodulate" /\ m.modulation = AM) =>
                            out * m.den = (IF s < 0 THEN -s ELSE s) * n.den]_vars

\* C32: a constructor call that fails has raised InvalidModulationTypeError
\* when the modulation is not one of "am", "am-sc", "none", whatever the
\* signal is, and InvalidSignalTypeError when the modulation is one of them
\* and the signal is neither bytes nor an array; it fails in no other case.
ConstructorErrors ==
    \A c \in Client :
        LET m == worker[c].recorded IN
        /\ m.ops = <<"__init__">> =>
            /\ m.modulation \notin {AM, AM_SC, NO_MOD} =>
                    worker[c].err = "InvalidModulationTypeError"
            /\ m.modulation \in {AM, AM_SC, NO_MOD} =>
                    /\ worker[c].err = "InvalidSignalTypeError"
                    /\ m.dtype \notin {"bytes", "ndarray"}
        /\ m.ops # <<"__init__">> => worker[c].err = NoError

\* A constructor called with an unknown modulation and a list has failed.
BothArgumentsInvalid ==
    \E c \in Client :
        /\ worker[c].recorded.ops = <<"__init__">>
        /\ worker[c].recorded.modulation = "fm"
        /\ worker[c].recorded.dtype = "list"
        /\ worker[c].err = "InvalidModulationTypeError"

\* C33: the stages applied to a block depend on the modulation of the
\* client alone and come in one order.  The packet a worker is about to
\* send went through lowpass, modulate, encode for "am" and "am-sc" and
\* through encode alone for "none"; what a client has written to its
\* speaker went through demodulate, lowpass, output for "am" and "am-sc" and
\* through output alone for "none"; the blocks a client plays went through
\* the worker's stages for the modulation the client chose.
PipelineOrder ==
    \A c \in Client :
        /\ worker[c].pc = "send" =>
            /\ worker[c].pkt.kind = "pcm"
            /\ worker[c].pkt.stages = (IF worker[c].modulation = NO_MOD THEN <<"encode">>
                                       ELSE <<"lowpass", "modulate", "encode">>)
        /\ \A i \in 1..Len(cli[c].played) :
            /\ cli[c].played[i].stages = (IF cli[c].modulation = NO_MOD THEN <<"output">>
                                          ELSE <<"demodulate", "lowpass", "output">>)
            /\ cli[c].played[i].packet.kind = "pcm" =>
                cli[c].played[i].packet.stages =
                    (IF cli[c].modulation = NO_MOD THEN <<"encode">>
                     ELSE <<"lowpass", "modulate", "encode">>)

\* A client with modulation "am" has played a block its worker recorded.
ModulatedBlockPlayed ==
    \E c \in Client :
        /\ cli[c].modulation = AM
        /\ \E i \in 1..Len(cli[c].played) :
            /\ cli[c].played[i].packet.kind = "pcm"
            /\ cli[c].played[i].packet.src = c
            /\ cli[c].played[i].stages = <<"demodulate", "lowpass", "output">>

\* C34: every package a client has decoded and written to its speaker is a
\* PCM packet of the streaming loop of its worker: the informational
\* strings the worker sent after the handshake were all received before the
\* speaker was opened, and none of them is among the packages played.
OnlyAudioPlayed ==
    \A c \in Client :
        /\ \A i \in 1..Len(cli[c].played) : cli[c].played[i].packet.kind = "pcm"
        /\ cli[c].speaker =>
            \A i \in (cli[c].read + 1)..Len(net[c].down) : net[c].down[i].kind = "pcm"

\* C35: a worker whose ack was not "OK" does nothing after bye(client) but
\* end: it is inside bye, or has returned without an error, or went with the
\* process; it looks the removed client up no more and opens no microphone.
FailedAckEndsQuietly ==
    \A c \in Client :
        (worker[c].ack # "-" /\ worker[c].ack # "OK") =>
            /\ worker[c].pc \in {"bye", "bye_remove", "bye_log", "done", "killed"}
            /\ worker[c].err = NoError
            /\ ~worker[c].mic

\* C36: the modulation of every record of the registry is "am", "am-sc" or
\* "none", and so is the modulation of every worker that has opened its
\* microphone: hello() stores no other string it received as the modulation.
StoredModulationValid ==
    \A c \in Client :
        /\ (~clients_none /\ c \in DOMAIN clients /\ clients[c].modulation # Unset) =>
                clients[c].modulation \in {AM, AM_SC, NO_MOD}
        /\ worker[c].mic => worker[c].modulation \in {AM, AM_SC, NO_MOD}

\* C37: a Server.send called with the default ensure=True that has returned
\* has written every byte of its package to the socket of the client.
ServerSendWritesAll ==
    \A c \in Client :
        (worker[c].tx.state = "returned" /\ worker[c].tx.ensure) =>
            worker[c].tx.written = worker[c].tx.size

\* C38: from the accept of a connection until hello() returns, the main
\* thread accepts no other connection, and it gets past the receive of the
\* name and past the receive of the modulation only when a message of that
\* client has arrived or the client has closed its end.
HelloBlocksOnHandshake ==
    [][main.pc \in {"hello_name", "hello_color", "hello_modulation"} =>
        /\ accepted' = accepted
        /\ backlog' \in {backlog} \cup {Append(backlog, c) : c \in Client}
        /\ (main.pc # "hello_color" /\ main'.pc # main.pc) =>
                (net[main.client].up # <<>> \/ net[main.client].cli = "closed")]_vars

\* hello() waits for the modulation of the client it accepted, nothing has
\* arrived from it, and another connection is pending.
SecondClientWaits ==
    /\ main.pc = "hello_modulation"
    /\ net[main.client].up = <<>>
    /\ net[main.client].cli = "open"
    /\ backlog # <<>>

\* C39: a disconnect() called on a session that is closed, because it was
\* never opened or because it was disconnected before, raises nothing,
\* touches no socket and leaves the session closed with its fields reset:
\* the last server.disconnect() of server_option, and a Client.disconnect()
\* on a client without a session.
DisconnectIdempotent ==
    [][/\ (main.pc = "leave" /\ main'.pc # "leave") =>
            /\ ~is_open
            /\ main'.pc = "done"
            /\ socket' = "None" /\ clients_none' /\ clients' = <<>> /\ logs' = "None"
            /\ net' = net /\ backlog' = backlog /\ worker' = worker
       /\ \A c \in Client :
            (cli[c].op # "disconnect" /\ cli'[c].op = "disconnect") =>
                /\ cli[c].sock # "open"
                /\ cli'[c].err = NoError
                /\ cli'[c].sock = "None" /\ cli'[c].modulation = "None"
                /\ cli'[c].pc = cli[c].pc /\ cli'[c].name = cli[c].name
                /\ net' = net]_vars

\* The server has gone through disconnect() in the interrupt handler and
\* once more on the way out, and a client that was connected and has
\* disconnected was disconnected again.
DisconnectedTwice ==
    /\ main.pc = "done"
    /\ accepted # <<>>
    /\ \E c \in Client :
        /\ cli[c].op = "disconnect"
        /\ net[c].cli = "closed"

\* A server that never listened has left through disconnect(), and a client
\* that never connected was disconnected.
DisconnectedUnopened ==
    /\ main.pc = "done"
    /\ accepted = <<>>
    /\ \E c \in Client :
        /\ cli[c].op = "disconnect"
        /\ net[c].cli = "none"

\* C40: a Client constructed with the empty name fails with
\* InvalidNameError, as set_name does on a client that exists.
ConstructorNameCheck ==
    \A c \in Client :
        (cli[c].op = "__init__" /\ cli[c].args = <<"">>) => cli[c].err = "InvalidNameError"

====
